---- MODULE Spec2Model ----
(***************************************************************************)
(* A model of worker-mailer (Rust): the SMTP session of src/src/mailer.rs, *)
(* the message builder of src/src/email.rs, the helpers of                 *)
(* src/src/utils.rs and the queue adapter of src/src/queue.rs.             *)
(*                                                                         *)
(* Text is modelled at the byte level: a string is a sequence of           *)
(* one-character strings, so starts_with, lines, contains, split and the   *)
(* "4th character" test of read_response are computed as the code          *)
(* computes them.  An Option<T> is a sequence of length 0 (None) or 1      *)
(* (Some).                                                                 *)
(***************************************************************************)
EXTENDS Naturals, Sequences, FiniteSets, TLC

VARIABLES
    pc,            \* the await point the running call is suspended at, or "idle"
    op,            \* the public call in progress: connect, send, send_one, close, process_batch
    session,       \* the caller's WorkerMailer value: none, live, closed (close was called), dropped
    opts,          \* WorkerMailerOptions of the session
    mailer,        \* the WorkerMailer fields: socket, capabilities
    email_options, \* the EmailOptions of the send in progress
    response,      \* read_response's accumulated text
    ri,            \* cmd_rcpt's loop index (recipients already accepted)
    result,        \* what the last public call returned
    wire,          \* commands written to the transport during the current public call
    inbox,         \* bytes the server has sent that the client has not read yet
    srvq,          \* commands received by the server and not yet answered
    net,           \* the transport: none, up, eof (peer closed), err (broken), closed
    waited,        \* clock ticks spent in the pending socket read
    sends,         \* send_one calls made on the session
    fired,         \* lifecycle hooks invoked during the current public call
    hist,          \* observations of the run the properties are stated on
    batch,         \* process_batch: the messages of the batch
    results,       \* process_batch: the results pushed so far
    queue,         \* process_batch: per message, the ack/retry calls made on it
    pin,           \* pure-function specifications: the input drawn
    pout           \* pure-function specifications: the value computed

vars == <<pc, op, session, opts, mailer, email_options, response, ri, result, wire, inbox,
          srvq, net, waited, sends, fired, hist, batch, results, queue, pin, pout>>

sessionVars == <<pc, op, session, opts, mailer, email_options, response, ri, result, wire,
                 inbox, srvq, net, waited, sends, fired, hist, batch, results, queue>>

(***************************************************************************)
(* Bounds of the model.                                                    *)
(***************************************************************************)
MaxSends == 2      \* send_one calls on one session
MaxBatch == 2      \* messages in a batch
MaxWait  == 2      \* response-timeout periods a pending read is observed for
MaxTo    == 2      \* length of the to list of a drawn EmailOptions
MaxPartial == 1    \* bytes of an unfinished line a chunk of the session model may end with

(***************************************************************************)
(* Strings.                                                                *)
(***************************************************************************)
CR == "\r"
LF == "\n"

None == <<>>
Some(x) == <<x>>
IsSome(o) == Len(o) = 1
IsNone(o) == Len(o) = 0

Lower == <<"a", "b", "c", "d", "e", "f", "g", "h", "i", "j", "k", "l", "m",
           "n", "o", "p", "q", "r", "s", "t", "u", "v", "w", "x", "y", "z">>
Upper == <<"A", "B", "C", "D", "E", "F", "G", "H", "I", "J", "K", "L", "M",
           "N", "O", "P", "Q", "R", "S", "T", "U", "V", "W", "X", "Y", "Z">>
Digits == {"0", "1", "2", "3", "4", "5", "6", "7", "8", "9"}
Range(s) == {s[i] : i \in 1..Len(s)}
Alnum == Range(Lower) \cup Range(Upper) \cup Digits

\* str::to_uppercase on ASCII text
UpperChar(c) ==
    IF c \in Range(Lower) THEN Upper[CHOOSE i \in 1..26 : Lower[i] = c] ELSE c
to_uppercase(s) == [i \in 1..Len(s) |-> UpperChar(s[i])]

\* str::starts_with
starts_with(s, p) == Len(s) >= Len(p) /\ SubSeq(s, 1, Len(p)) = p
\* str::ends_with
ends_with(s, p) == Len(s) >= Len(p) /\ SubSeq(s, Len(s) - Len(p) + 1, Len(s)) = p
\* str::contains
contains(s, p) == \E i \in 1..(Len(s) + 1) : starts_with(SubSeq(s, i, Len(s)), p)
\* position of the first occurrence of the character c in s, 0 when absent
IndexOf(s, c) ==
    IF \E i \in 1..Len(s) : s[i] = c
    THEN CHOOSE i \in 1..Len(s) : s[i] = c /\ \A j \in 1..(i - 1) : s[j] /= c
    ELSE 0

\* str::split(c): the pieces between the occurrences of c (one piece for no occurrence)
RECURSIVE split(_, _)
split(s, c) ==
    LET i == IndexOf(s, c)
    IN  IF i = 0 THEN <<s>>
        ELSE <<SubSeq(s, 1, i - 1)>> \o split(SubSeq(s, i + 1, Len(s)), c)

\* str::lines: split at LF, a CR before the LF is dropped, no last empty line
StripCR(l) == IF ends_with(l, <<CR>>) THEN SubSeq(l, 1, Len(l) - 1) ELSE l
lines(s) ==
    LET raw  == split(s, LF)
        kept == IF raw[Len(raw)] = <<>> THEN SubSeq(raw, 1, Len(raw) - 1) ELSE raw
    IN  [i \in 1..Len(kept) |-> StripCR(kept[i])]

\* str::trim on the texts of the model: leading and trailing blanks, CR and LF
IsBlank(c) == c \in {" ", CR, LF, "\t"}
RECURSIVE trim(_)
trim(s) ==
    IF s = <<>> THEN s
    ELSE IF IsBlank(s[1]) THEN trim(Tail(s))
    ELSE IF IsBlank(s[Len(s)]) THEN trim(SubSeq(s, 1, Len(s) - 1))
    ELSE s

(***************************************************************************)
(* utils.rs                                                                *)
(***************************************************************************)
\* the class of the local part; the grave accent of the pattern cannot be
\* written in a TLA+ string and no address of the model holds one
LocalChars ==
    Alnum \cup {".", "!", "#", "$", "%", "&", "'", "*", "+", "/", "=", "?",
                "^", "_", "{", "|", "}", "~", "-"}

\* one domain label of the pattern: [a-zA-Z0-9](?:[a-zA-Z0-9-]{0,61}[a-zA-Z0-9])?
LabelMatches(l) ==
    /\ Len(l) >= 1
    /\ Len(l) <= 63
    /\ l[1] \in Alnum
    /\ l[Len(l)] \in Alnum
    /\ \A i \in 1..Len(l) : l[i] \in Alnum \cup {"-"}

\* the regular expression of is_valid_email, anchored at both ends
RegexMatches(email) ==
    LET parts == split(email, "@")
    IN  /\ Len(parts) = 2
        /\ Len(parts[1]) >= 1
        /\ \A i \in 1..Len(parts[1]) : parts[1][i] \in LocalChars
        /\ LET labels == split(parts[2], ".")
           IN  \A k \in 1..Len(labels) : LabelMatches(labels[k])

\* the verdict of the regular expression alone
is_valid_email_RegexOnly(email) == email /= <<>> /\ RegexMatches(email)

is_valid_email(email) ==
    IF email = <<>> THEN FALSE
    ELSE IF ~RegexMatches(email) THEN FALSE
    ELSE LET parts  == split(email, "@")
             local  == parts[1]
             domain == parts[2]
             labels == split(domain, ".")
             tld    == labels[Len(labels)]
         IN  IF Len(parts) /= 2 THEN FALSE
             ELSE IF Len(local) > 64 THEN FALSE
             ELSE IF Len(domain) > 255 THEN FALSE
             ELSE IF ~contains(domain, <<".">>) THEN FALSE
             ELSE Len(tld) >= 2

(***************************************************************************)
(* email.rs: Recipient, User, Email::new                                   *)
(***************************************************************************)
\* Recipient::Email(String) and Recipient::User(User)
RecipientEmail(e) == [tag |-> "Email", email |-> e, name |-> None]
RecipientUser(e, n) == [tag |-> "User", email |-> e, name |-> n]

one_recipient_to_user(r) ==
    IF r.tag = "Email" THEN [email |-> r.email, name |-> None]
    ELSE [email |-> r.email, name |-> r.name]

recipients_to_users(rs) == [i \in 1..Len(rs) |-> one_recipient_to_user(rs[i])]

\* HashMap::default()
EmptyMap == <<>>

\* the collection that stops at the first address that fails is_valid_email
InvalidOf_First(users) ==
    LET I == {i \in 1..Len(users) : ~is_valid_email(users[i].email)}
    IN  IF I = {} THEN <<>> ELSE <<users[CHOOSE i \in I : \A j \in I : i <= j].email>>

\* the addresses of a list of users that fail is_valid_email, in list order
RECURSIVE InvalidOf(_)
InvalidOf(users) ==
    IF users = <<>> THEN <<>>
    ELSE (IF is_valid_email(users[1].email) THEN <<>> ELSE <<users[1].email>>)
         \o InvalidOf(Tail(users))

OptList(o) == IF IsSome(o) THEN o[1] ELSE <<>>

\* Email::new with the address check ahead of the content check
Email_new_AddressFirst(options) ==
    LET from    == one_recipient_to_user(options.from)
        to      == recipients_to_users(options.to)
        reply   == IF IsSome(options.reply)
                   THEN Some(one_recipient_to_user(options.reply[1])) ELSE None
        cc      == IF IsSome(options.cc) THEN Some(recipients_to_users(options.cc[1])) ELSE None
        bcc     == IF IsSome(options.bcc) THEN Some(recipients_to_users(options.bcc[1])) ELSE None
        invalid == InvalidOf(<<from>>) \o InvalidOf(to) \o InvalidOf(reply)
                   \o InvalidOf(OptList(cc)) \o InvalidOf(OptList(bcc))
    IN  IF invalid /= <<>>
        THEN [ok |-> FALSE, kind |-> "InvalidEmail", invalid_emails |-> invalid]
        ELSE IF IsNone(options.text) /\ IsNone(options.html)
        THEN [ok |-> FALSE, kind |-> "InvalidContent", invalid_emails |-> <<>>]
        ELSE [ok |-> TRUE, kind |-> "Email", invalid_emails |-> <<>>,
              from |-> from, to |-> to, reply |-> reply, cc |-> cc, bcc |-> bcc,
              text |-> options.text, html |-> options.html,
              headers |-> IF IsSome(options.headers) THEN options.headers[1] ELSE EmptyMap]

\* Email::new
Email_new(options) ==
    IF IsNone(options.text) /\ IsNone(options.html)
    THEN [ok |-> FALSE, kind |-> "InvalidContent", invalid_emails |-> <<>>]
    ELSE
    LET from    == one_recipient_to_user(options.from)
        to      == recipients_to_users(options.to)
        reply   == IF IsSome(options.reply)
                   THEN Some(one_recipient_to_user(options.reply[1])) ELSE None
        cc      == IF IsSome(options.cc) THEN Some(recipients_to_users(options.cc[1])) ELSE None
        bcc     == IF IsSome(options.bcc) THEN Some(recipients_to_users(options.bcc[1])) ELSE None
        invalid == InvalidOf(<<from>>) \o InvalidOf(to) \o InvalidOf(reply)
                   \o InvalidOf(OptList(cc)) \o InvalidOf(OptList(bcc))
    IN  IF invalid /= <<>>
        THEN [ok |-> FALSE, kind |-> "InvalidEmail", invalid_emails |-> invalid]
        ELSE [ok |-> TRUE, kind |-> "Email", invalid_emails |-> <<>>,
              from |-> from, to |-> to, reply |-> reply, cc |-> cc, bcc |-> bcc,
              text |-> options.text, html |-> options.html,
              headers |-> IF IsSome(options.headers) THEN options.headers[1] ELSE EmptyMap]

\* every address of the input, in the order from, to, reply, cc, bcc
AddressesOf(options) ==
    <<options.from.email>>
    \o [i \in 1..Len(options.to) |-> options.to[i].email]
    \o [i \in 1..Len(options.reply) |-> options.reply[i].email]
    \o [i \in 1..Len(OptList(options.cc)) |-> OptList(options.cc)[i].email]
    \o [i \in 1..Len(OptList(options.bcc)) |-> OptList(options.bcc)[i].email]

(***************************************************************************)
(* The inputs drawn.                                                       *)
(***************************************************************************)
A_GOOD  == <<"a", "@", "b", ".", "c", "o">>
A_GOOD2 == <<"c", "@", "d", ".", "o", "r", "g">>
A_GOOD3 == <<"e", "-", "1", "@", "f", "-", "g", ".", "n", "e", "t">>
A_WORD  == <<"i", "n", "v", "a", "l", "i", "d">>
A_TLD1  == <<"a", "@", "b", ".", "c">>
A_EMPTY == <<>>
T_HI    == <<"h", "i">>

SeqsUpTo(S, n) == UNION {[1..k -> S] : k \in 0..n}

BuildAddrs == {A_GOOD, A_WORD, A_TLD1}

\* the EmailOptions Email::new is applied to in SpecEmail
BuildInputs ==
    [from    : {RecipientEmail(a) : a \in BuildAddrs}
               \cup {RecipientUser(A_GOOD, Some(T_HI)), RecipientUser(A_EMPTY, None)},
     to      : SeqsUpTo({RecipientEmail(a) : a \in BuildAddrs}, MaxTo),
     reply   : {None, Some(RecipientEmail(A_GOOD2)), Some(RecipientEmail(A_WORD))},
     cc      : {None, Some(<<>>), Some(<<RecipientUser(A_TLD1, Some(T_HI))>>)},
     bcc     : {None, Some(<<RecipientEmail(A_GOOD)>>),
                Some(<<RecipientEmail(A_GOOD), RecipientEmail(A_EMPTY)>>)},
     text    : {None, Some(<<>>), Some(T_HI)},
     html    : {None, Some(T_HI)},
     headers : {None}]

(***************************************************************************)
(* The server's replies.  A reply is the bytes the server sends for one    *)
(* command; the transport may hand them to the client in any chunks.       *)
(***************************************************************************)
BAD == "\\xFF"     \* a byte that is not valid UTF-8

R220      == <<"2", "2", "0", " ", "o", "k", CR, LF>>
R221      == <<"2", "2", "1", " ", "o", "k", CR, LF>>
R235      == <<"2", "3", "5", " ", "o", "k", CR, LF>>
R250      == <<"2", "5", "0", " ", "o", "k", CR, LF>>
R334      == <<"3", "3", "4", " ", "a", "b", "c", "d", CR, LF>>
R334_BAD  == <<"3", "3", "4", " ", "!", CR, LF>>
R354      == <<"3", "5", "4", " ", "g", "o", CR, LF>>
R421      == <<"4", "2", "1", " ", "n", "o", CR, LF>>
R500      == <<"5", "0", "0", " ", "n", "o", CR, LF>>
R535      == <<"5", "3", "5", " ", "n", "o", CR, LF>>
R550      == <<"5", "5", "0", " ", "n", "o", CR, LF>>
R554      == <<"5", "5", "4", " ", "n", "o", CR, LF>>
R_UTF8    == <<"2", "2", "1", " ", BAD, CR, LF>>
R220_UTF8 == <<"2", "2", "0", " ", BAD, CR, LF>>

\* EHLO replies: the scenario of the specification, single capabilities, a host
\* name that holds a capability word, a mechanism named off the AUTH line
L_AUTH_PL   == <<"2", "5", "0", "-", "A", "U", "T", "H", " ", "P", "L", "A", "I", "N", " ",
                 "L", "O", "G", "I", "N", CR, LF>>
L_STARTTLS  == <<"2", "5", "0", "-", "S", "T", "A", "R", "T", "T", "L", "S", CR, LF>>
L_DSN       == <<"2", "5", "0", " ", "D", "S", "N", CR, LF>>
L_HOST_DSN  == <<"2", "5", "0", "-", "d", "s", "n", ".", "e", "x", CR, LF>>
L_SIZE      == <<"2", "5", "0", " ", "S", "I", "Z", "E", CR, LF>>
L_AUTH_CRAM == <<"2", "5", "0", " ", "A", "U", "T", "H", " ", "C", "R", "A", "M", "-", "M",
                 "D", "5", CR, LF>>
L_TLS_ONLY  == <<"2", "5", "0", " ", "S", "T", "A", "R", "T", "T", "L", "S", CR, LF>>
L_AUTH_ONLY == <<"2", "5", "0", " ", "A", "U", "T", "H", " ", "L", "O", "G", "I", "N", " ",
                 "P", "L", "A", "I", "N", CR, LF>>
L_TLS_AUTH  == <<"2", "5", "0", " ", "S", "T", "A", "R", "T", "T", "L", "S", " ", "A", "U", "T",
                 "H", " ", "P", "L", "A", "I", "N", CR, LF>>

E_SCENARIO  == L_AUTH_PL \o L_STARTTLS \o L_DSN
E_HOST_DSN  == L_HOST_DSN \o L_SIZE

\* the replies the server of the model may give to a command
Replies(verb) ==
    CASE verb = "GREET"         -> {R220, R554, R220_UTF8}
      [] verb = "EHLO"          -> {R250, E_SCENARIO, L_AUTH_ONLY, L_AUTH_CRAM, L_TLS_ONLY,
                                    L_TLS_AUTH, E_HOST_DSN, R421, R500}
      [] verb = "HELO"          -> {R250, R500}
      [] verb = "AUTH PLAIN"    -> {R235, R535}
      [] verb = "AUTH LOGIN"    -> {R334, R535, R235}
      [] verb = "USER"          -> {R334, R535, R235}
      [] verb = "PASS"          -> {R235, R535, R334}
      [] verb = "AUTH CRAM-MD5" -> {R334, R334_BAD, R535}
      [] verb = "MAIL"          -> {R250, R550}
      [] verb = "RCPT"          -> {R250, R550}
      [] verb = "DATA"          -> {R354, R554}
      [] verb = "BODY"          -> {R250, R554}
      [] verb = "QUIT"          -> {R221, R_UTF8}

(***************************************************************************)
(* mailer.rs: options and the values the public calls return               *)
(***************************************************************************)
default_response_timeout_ms == 30000

CREDS == [username |-> <<"u">>, password |-> <<"p">>]

AuthLists == {<<>>, <<"Plain">>, <<"Login">>, <<"Plain", "Login">>, <<"Login", "Plain">>,
              <<"CramMd5">>}

\* the WorkerMailerOptions the caller may pass: the default secure/start_tls pair
\* with every authentication set-up (without credentials auth never looks at
\* auth_type), and every other pair with one authentication set-up
OptionsSet ==
    {o \in [secure : BOOLEAN, start_tls : BOOLEAN, credentials : {None, Some(CREDS)},
            auth_type : AuthLists, response_timeout_ms : {default_response_timeout_ms}] :
        \/ ~o.secure /\ o.start_tls /\ o.credentials = Some(CREDS)
        \/ ~o.secure /\ o.start_tls /\ o.credentials = None /\ o.auth_type = <<>>
        \/ o.credentials = Some(CREDS) /\ o.auth_type = <<"Login", "Plain">>}

NoOptions ==
    [secure |-> FALSE, start_tls |-> TRUE, credentials |-> None, auth_type |-> <<>>,
     response_timeout_ms |-> default_response_timeout_ms]

O_QUEUE ==
    [secure |-> FALSE, start_tls |-> TRUE, credentials |-> Some(CREDS),
     auth_type |-> <<"Login", "Plain">>,
     response_timeout_ms |-> default_response_timeout_ms]

\* the options of the one-shot send
SendOptions == {O_QUEUE, NoOptions}

\* the EmailOptions the caller may pass to send_one, send and the queue
Mail(to, cc, bcc, text) ==
    [from |-> RecipientEmail(A_GOOD),
     to |-> [i \in 1..Len(to) |-> RecipientEmail(to[i])],
     reply |-> None, cc |-> cc, bcc |-> bcc,
     text |-> text, html |-> None, headers |-> None]

M_ONE    == Mail(<<A_GOOD2>>, None, None, Some(T_HI))
M_THREE  == Mail(<<A_GOOD2>>, Some(<<RecipientEmail(A_GOOD3), RecipientEmail(A_GOOD2)>>),
                 Some(<<RecipientUser(A_GOOD, Some(T_HI))>>), Some(T_HI))
M_NOBODY == Mail(<<A_GOOD2>>, None, None, None)
M_BADTO  == Mail(<<A_GOOD2, A_WORD>>, None, None, Some(T_HI))
M_NOTO   == Mail(<<>>, None, None, Some(T_HI))

SendInputs == {M_THREE, M_NOBODY, M_BADTO, M_NOTO}

\* Result<_, worker::Error>: Ok with the text it carries, or the RustError with
\* the parts its message is formatted from
\* every error the public calls return is a worker::Error, built as
\* worker::Error::RustError(String) in mailer.rs; type is the type of the error value
RustError == "worker::Error::RustError"

Ok(text) ==
    [ok |-> TRUE, kind |-> "Ok", type |-> "none", addr |-> <<>>, text |-> text,
     invalid |-> <<>>]
Err(kind, text) ==
    [ok |-> FALSE, kind |-> kind, type |-> RustError, addr |-> <<>>, text |-> text,
     invalid |-> <<>>]
ErrRcpt(addr, text) ==
    [ok |-> FALSE, kind |-> "RCPT TO failed", type |-> RustError, addr |-> addr,
     text |-> text, invalid |-> <<>>]
ErrBuild(e) ==
    [ok |-> FALSE, kind |-> e.kind, type |-> RustError, addr |-> <<>>, text |-> <<>>,
     invalid |-> e.invalid_emails]
\* self.socket.as_mut().unwrap() on an empty slot: the call does not return
Panicked ==
    [ok |-> FALSE, kind |-> "panicked", type |-> "none", addr |-> <<>>, text |-> <<>>,
     invalid |-> <<>>]
NoResult ==
    [ok |-> TRUE, kind |-> "none", type |-> "none", addr |-> <<>>, text |-> <<>>,
     invalid |-> <<>>]

NoMailer ==
    [socket |-> None, supports_dsn |-> FALSE, allow_auth |-> FALSE,
     auth_type_supported |-> <<>>, supports_start_tls |-> FALSE]

NoHist ==
    [started |-> FALSE,         \* a public call was made
     call |-> "none",           \* the public call made last
     socks |-> 0,               \* transports opened so far
     opened |-> FALSE,          \* the call made last opened a transport
     reads |-> FALSE,           \* the call made last read from its transport
     replies |-> <<>>,          \* the responses read_response returned in that call
     via |-> <<>>,              \* the handle each write and each returned read went to
     failed |-> FALSE,          \* a protocol failure was returned on the transport
     wroteAfterFail |-> FALSE]  \* and a command was written on it afterwards

(***************************************************************************)
(* The state as one record, so that each step of the code is a function    *)
(* from the state before it to the state after it.                         *)
(***************************************************************************)
St ==
    [pc |-> pc, op |-> op, session |-> session, opts |-> opts, mailer |-> mailer,
     email_options |-> email_options, response |-> response, ri |-> ri,
     result |-> result, wire |-> wire, inbox |-> inbox, srvq |-> srvq, net |-> net,
     waited |-> waited, sends |-> sends, fired |-> fired, hist |-> hist,
     batch |-> batch, results |-> results, queue |-> queue]

Apply(s) ==
    /\ pc' = s.pc
    /\ op' = s.op
    /\ session' = s.session
    /\ opts' = s.opts
    /\ mailer' = s.mailer
    /\ email_options' = s.email_options
    /\ response' = s.response
    /\ ri' = s.ri
    /\ result' = s.result
    /\ wire' = s.wire
    /\ inbox' = s.inbox
    /\ srvq' = s.srvq
    /\ net' = s.net
    /\ waited' = s.waited
    /\ sends' = s.sends
    /\ fired' = s.fired
    /\ hist' = s.hist
    /\ batch' = s.batch
    /\ results' = s.results
    /\ queue' = s.queue
    /\ UNCHANGED <<pin, pout>>

ReadPcs == {"greet_rd", "ehlo_rd", "helo_rd", "plain_rd", "login_rd", "user_rd", "pass_rd",
            "cram_rd", "mail_rd", "rcpt_rd", "data_rd", "body_rd", "quit_rd"}

\* the command whose reply the read at pc p is made for
VerbAt(p) ==
    CASE p = "greet_rd" -> "GREET"
      [] p = "ehlo_rd"  -> "EHLO"
      [] p = "helo_rd"  -> "HELO"
      [] p = "plain_rd" -> "AUTH PLAIN"
      [] p = "login_rd" -> "AUTH LOGIN"
      [] p = "user_rd"  -> "USER"
      [] p = "pass_rd"  -> "PASS"
      [] p = "cram_rd"  -> "AUTH CRAM-MD5"
      [] p = "mail_rd"  -> "MAIL"
      [] p = "rcpt_rd"  -> "RCPT"
      [] p = "data_rd"  -> "DATA"
      [] p = "body_rd"  -> "BODY"
      [] p = "quit_rd"  -> "QUIT"

(***************************************************************************)
(* queue.rs process_batch, lines 31-48: the match on what send returned;   *)
(* and the return of the other public calls to their caller.               *)
(***************************************************************************)
\* the reply read for the document of the send in progress was a 2xx one
Accepted(s) ==
    \E i \in 1..Len(s.hist.replies) :
        s.hist.replies[i].verb = "BODY" /\ starts_with(s.hist.replies[i].text, <<"2">>)

\* the match of process_batch with ack in both arms
batch_record_AckAlways(s, res) ==
    LET i == Len(s.results) + 1
    IN  [s EXCEPT !.pc = "batch_loop",
                  !.result = res,
                  !.session = "dropped",
                  !.mailer = NoMailer, !.net = "none", !.inbox = <<>>, !.srvq = <<>>,
                  !.wire = <<>>, !.fired = {}, !.response = <<>>, !.ri = 0, !.waited = 0,
                  !.hist.replies = <<>>, !.hist.via = <<>>,
                  !.queue[i] = [@ EXCEPT !.acks = @ + 1],
                  !.results = Append(@, [success |-> res.ok,
                                         error |-> IF res.ok THEN None ELSE Some(res),
                                         email_options |-> s.email_options,
                                         sock |-> s.mailer.socket,
                                         closed |-> s.net = "closed",
                                         accepted |-> Accepted(s)])]

\* message.ack() / message.retry() and results.push; send's mailer is gone with
\* its transport, and what was observed of it is kept in the result: the transport
\* it used and whether its document was accepted
batch_record(s, res) ==
    LET i == Len(s.results) + 1
    IN  [s EXCEPT !.pc = "batch_loop",
                  !.result = res,
                  !.session = "dropped",
                  !.mailer = NoMailer, !.net = "none", !.inbox = <<>>, !.srvq = <<>>,
                  !.wire = <<>>, !.fired = {}, !.response = <<>>, !.ri = 0, !.waited = 0,
                  !.hist.replies = <<>>, !.hist.via = <<>>,
                  !.queue[i] = IF res.ok THEN [@ EXCEPT !.acks = @ + 1]
                               ELSE [@ EXCEPT !.retries = @ + 1],
                  !.results = Append(@, [success |-> res.ok,
                                         error |-> IF res.ok THEN None ELSE Some(res),
                                         email_options |-> s.email_options,
                                         sock |-> s.mailer.socket,
                                         closed |-> s.net = "closed",
                                         accepted |-> Accepted(s)])]

\* the running public call returns res
Return(s, res) ==
    LET failure == /\ ~res.ok
                   /\ s.op \in {"connect", "send_one", "send", "process_batch"}
                   /\ res.kind \notin {"InvalidContent", "InvalidEmail", "connect failed"}
        s1 == [s EXCEPT !.hist.failed = @ \/ failure]
    IN  IF s.op = "process_batch" THEN batch_record(s1, res)
        ELSE [s1 EXCEPT !.pc = "idle",
                        !.op = "none",
                        !.result = res,
                        !.session = CASE s.op = "connect" -> IF res.ok THEN "live" ELSE "none"
                                      [] s.op = "send"    -> "dropped"
                                      [] s.op = "close"   -> "closed"
                                      [] OTHER            -> s.session]

(***************************************************************************)
(* mailer.rs: read_response, write                                         *)
(***************************************************************************)
\* utils::decode of one chunk succeeds
decode_ok(chunk) == BAD \notin Range(chunk)

\* the exit test of read_response's loop on the accumulated text (lines 235-247):
\* TRUE when the loop breaks
response_complete(r) ==
    IF ~ends_with(r, <<LF>>) THEN FALSE
    ELSE LET ls   == lines(r)
             last == IF Len(ls) >= 2 THEN ls[Len(ls) - 1] ELSE <<>>
         IN  ~(Len(last) >= 4 /\ last[4] = "-")

\* the bytes of r after its last line end
RECURSIVE PartialLen(_)
PartialLen(r) == IF r = <<>> \/ r[Len(r)] = LF THEN 0 ELSE 1 + PartialLen(SubSeq(r, 1, Len(r) - 1))

\* the chunks the transport of the session model hands over: any number of the
\* bytes that have arrived, cut at a line end or at most MaxPartial bytes after one
ChunkSizes(s) ==
    {k \in 1..Len(s.inbox) : PartialLen(s.response \o SubSeq(s.inbox, 1, k)) <= MaxPartial}

\* one socket.read of read_response and the loop body after it: the outcomes
\* "more" (the loop continues), "done" (Ok(response)), "err" (the read failed)
\* and "undecodable" (decode failed and `?` returned its error)
ReadOutcomes(s) ==
    LET s0 == [s EXCEPT !.waited = 0, !.hist.reads = TRUE]
    IN  IF IsNone(s.mailer.socket)
        THEN {[kind |-> "panic", s |-> s0]}
        ELSE IF s.net \in {"err", "closed"}
        THEN {[kind |-> "err", s |-> s0]}
        ELSE IF s.inbox = <<>>
        THEN (IF s.net = "eof" THEN {[kind |-> "done", s |-> s0]} ELSE {})
        ELSE {LET chunk == SubSeq(s.inbox, 1, k)
                  s1    == [s0 EXCEPT !.inbox = SubSeq(s.inbox, k + 1, Len(s.inbox))]
                  r2    == s.response \o chunk
              IN  IF ~decode_ok(chunk) THEN [kind |-> "undecodable", s |-> s1]
                  ELSE [kind |-> IF response_complete(r2) THEN "done" ELSE "more",
                        s |-> [s1 EXCEPT !.response = r2]]
              : k \in ChunkSizes(s)}

\* read_response returned Ok(response) to the step at s.pc
Logged(s) ==
    [s EXCEPT !.hist.replies = Append(@, [verb |-> VerbAt(s.pc), text |-> s.response]),
              !.hist.via = Append(@, [dir |-> "read", sock |-> s.mailer.socket[1]])]

\* a read of a command's reply: the loop goes on, the error is propagated by `?`,
\* or the step's code K runs on the response
ReadNext(o, K(_)) ==
    IF o.kind = "more" THEN o.s
    ELSE IF o.kind = "panic" THEN Return(o.s, Panicked)
    ELSE IF o.kind = "err" THEN Return(o.s, Err("read error", <<>>))
    ELSE IF o.kind = "undecodable" THEN Return(o.s, Err("invalid utf-8", <<>>))
    ELSE K(Logged(o.s))

\* write_all and flush succeed on an open transport whose peer is there
write_ok(s) == s.net = "up"

\* write_line / write of one command, then the read of its reply at pc next
Write(s, item, next) ==
    IF IsNone(s.mailer.socket) THEN Return(s, Panicked)
    ELSE IF write_ok(s)
    THEN [s EXCEPT !.wire = Append(@, item),
                   !.hist.via = Append(@, [dir |-> "write", sock |-> s.mailer.socket[1]]),
                   !.srvq = Append(@, item.verb),
                   !.pc = next,
                   !.response = <<>>,
                   !.hist.wroteAfterFail = @ \/ s.hist.failed]
    ELSE Return(s, Err("write error", <<>>))

Cmd(verb, arg) == [verb |-> verb, arg |-> arg]

(***************************************************************************)
(* mailer.rs: the steps of connect, send_one and close.  Each operator is  *)
(* the code that runs between two await points.                            *)
(***************************************************************************)
Has(list, x) == \E i \in 1..Len(list) : list[i] = x

W_AUTH     == <<"A", "U", "T", "H">>
W_PLAIN    == <<"P", "L", "A", "I", "N">>
W_LOGIN    == <<"L", "O", "G", "I", "N">>
W_CRAM_MD5 == <<"C", "R", "A", "M", "-", "M", "D", "5">>
W_STARTTLS == <<"S", "T", "A", "R", "T", "T", "L", "S">>
W_DSN      == <<"D", "S", "N">>
P_220      == <<"2", "2", "0">>
P_421      == <<"4", "2", "1">>
P_334      == <<"3", "3", "4", " ">>
P_2        == <<"2">>
P_3        == <<"3">>

\* the text standing for the base64 encoding of x
B64(x) == <<"base64:">> \o x
\* B64.decode accepts the text: whole quanta of the base64 alphabet
b64_decodes(t) ==
    /\ Len(t) % 4 = 0
    /\ \A i \in 1..Len(t) : t[i] \in Alnum \cup {"+", "/"}
Angle(e) == <<"<">> \o e \o <<">">>

parse_capabilities(m, resp) ==
    LET up == to_uppercase(resp)
        a  == contains(up, W_AUTH)
    IN  [m EXCEPT
           !.allow_auth = @ \/ a,
           !.auth_type_supported =
               @ \o (IF a /\ contains(up, W_PLAIN) THEN <<"Plain">> ELSE <<>>)
                 \o (IF a /\ contains(up, W_LOGIN) THEN <<"Login">> ELSE <<>>)
                 \o (IF a /\ contains(up, W_CRAM_MD5) THEN <<"CramMd5">> ELSE <<>>),
           !.supports_start_tls = @ \/ contains(up, W_STARTTLS),
           !.supports_dsn = @ \/ contains(up, W_DSN)]

\* the branch auth takes (lines 328-336): the mechanism, or "none"
auth_mechanism(supported, configured) ==
    IF Has(supported, "Plain") /\ Has(configured, "Plain") THEN "Plain"
    ELSE IF Has(supported, "Login") /\ Has(configured, "Login") THEN "Login"
    ELSE IF Has(supported, "CramMd5") /\ Has(configured, "CramMd5") THEN "CramMd5"
    ELSE "none"

\* the list with cc ahead of to
AllRecipients_CcFirst(e) == OptList(e.cc) \o e.to \o OptList(e.bcc)

\* cmd_rcpt's list: to, then cc, then bcc
AllRecipients(e) == e.to \o OptList(e.cc) \o OptList(e.bcc)

\* send_one up to its first await: Email::new, then cmd_mail's formatting
send_one_start(s) ==
    LET e == Email_new(s.email_options)
    IN  IF ~e.ok THEN Return(s, ErrBuild(e))
        ELSE [s EXCEPT !.pc = "mail_wr", !.ri = 0]

\* connect after initialize_smtp_session returned Ok: the on_connect hook, Ok(mailer);
\* in send, send_one follows
connect_ok(s) ==
    LET s1 == [s EXCEPT !.fired = @ \cup {"on_connect"}]
    IN  IF s.op = "connect" THEN Return(s1, Ok(<<>>))
        ELSE send_one_start(s1)

\* auth up to its first await
auth(s) ==
    IF ~s.mailer.allow_auth THEN connect_ok(s)
    ELSE IF IsNone(s.opts.credentials)
    THEN Return(s, Err("Auth required but no credentials", <<>>))
    ELSE LET m == auth_mechanism(s.mailer.auth_type_supported, s.opts.auth_type)
         IN  CASE m = "Plain"   -> [s EXCEPT !.pc = "plain_wr"]
               [] m = "Login"   -> [s EXCEPT !.pc = "login_wr"]
               [] m = "CramMd5" -> [s EXCEPT !.pc = "cram_wr"]
               [] OTHER         -> Return(s, Err("No supported auth method", <<>>))

\* the step that takes the handle out of the slot and puts nothing back
after_ehlo_EmptySlot(s) ==
    LET sock == s.mailer.socket[1]
    IN  IF ~sock.tls /\ s.opts.start_tls /\ ~s.opts.secure /\ s.mailer.supports_start_tls
        THEN [s EXCEPT !.mailer.socket = None, !.pc = "ehlo_wr"]
        ELSE auth(s)

\* Socket::start_tls: consumes the plaintext handle and returns the encrypted one
start_tls(sock) == [sock EXCEPT !.tls = TRUE]

\* initialize_smtp_session after an ehlo returned Ok (lines 214-220): after the
\* first one the upgrade and the second ehlo, after the second one auth
after_ehlo(s) ==
    LET sock == s.mailer.socket[1]
    IN  IF ~sock.tls /\ s.opts.start_tls /\ ~s.opts.secure /\ s.mailer.supports_start_tls
        THEN [s EXCEPT !.mailer.socket = Some(start_tls(sock)), !.pc = "ehlo_wr"]
        ELSE auth(s)

greet_done(s) ==
    IF ~starts_with(s.response, P_220) THEN Return(s, Err("Failed to connect", s.response))
    ELSE [s EXCEPT !.pc = "ehlo_wr"]

ehlo_done(s) ==
    IF starts_with(s.response, P_421) THEN Return(s, Err("EHLO failed", s.response))
    ELSE IF ~starts_with(s.response, P_2) THEN [s EXCEPT !.pc = "helo_wr"]
    ELSE after_ehlo([s EXCEPT !.mailer = parse_capabilities(s.mailer, s.response)])

helo_done(s) ==
    IF ~starts_with(s.response, P_2) THEN Return(s, Err("HELO failed", s.response))
    ELSE after_ehlo(s)

auth_plain_done(s) ==
    IF ~starts_with(s.response, P_2) THEN Return(s, Err("AUTH PLAIN failed", s.response))
    ELSE connect_ok(s)

\* auth_login that goes on to the username whatever the reply to AUTH LOGIN
auth_login_done_NoCheck(s) == [s EXCEPT !.pc = "user_wr"]

auth_login_done(s) ==
    IF ~starts_with(s.response, P_3) THEN Return(s, Err("AUTH LOGIN", s.response))
    ELSE [s EXCEPT !.pc = "user_wr"]

auth_login_user_done(s) ==
    IF ~starts_with(s.response, P_3) THEN Return(s, Err("AUTH LOGIN user", s.response))
    ELSE [s EXCEPT !.pc = "pass_wr"]

auth_login_pass_done(s) ==
    IF ~starts_with(s.response, P_2) THEN Return(s, Err("AUTH LOGIN", s.response))
    ELSE connect_ok(s)

\* auth_cram_md5 that accepts a challenge it could decode
auth_cram_md5_done_Accepts(s) ==
    LET rest == trim(IF starts_with(s.response, P_334)
                     THEN SubSeq(s.response, 5, Len(s.response)) ELSE <<>>)
    IN  IF ~b64_decodes(rest) THEN Return(s, Err("Invalid CRAM-MD5 challenge", <<>>))
        ELSE connect_ok(s)

auth_cram_md5_done(s) ==
    LET rest == trim(IF starts_with(s.response, P_334)
                     THEN SubSeq(s.response, 5, Len(s.response)) ELSE <<>>)
    IN  IF ~b64_decodes(rest) THEN Return(s, Err("Invalid CRAM-MD5 challenge", <<>>))
        ELSE Return(s, Err("CRAM-MD5 not fully implemented", <<>>))

cmd_mail_done(s) ==
    IF ~starts_with(s.response, P_2) THEN Return(s, Err("MAIL FROM failed", s.response))
    ELSE IF AllRecipients(Email_new(s.email_options)) = <<>> THEN [s EXCEPT !.pc = "data_wr"]
    ELSE [s EXCEPT !.pc = "rcpt_wr", !.ri = 0]

\* cmd_rcpt with a loop that looks at the reply of the last recipient only
cmd_rcpt_done_LastOnly(s) ==
    LET all  == AllRecipients(Email_new(s.email_options))
        user == all[s.ri + 1]
    IN  IF s.ri + 1 < Len(all) THEN [s EXCEPT !.ri = @ + 1, !.pc = "rcpt_wr"]
        ELSE IF ~starts_with(s.response, P_2) THEN Return(s, ErrRcpt(user.email, s.response))
        ELSE [s EXCEPT !.ri = @ + 1, !.pc = "data_wr"]

\* the rest of one iteration of cmd_rcpt's loop; a rejection ends the send
cmd_rcpt_done(s) ==
    LET all  == AllRecipients(Email_new(s.email_options))
        user == all[s.ri + 1]
    IN  IF ~starts_with(s.response, P_2) THEN Return(s, ErrRcpt(user.email, s.response))
        ELSE IF s.ri + 1 < Len(all) THEN [s EXCEPT !.ri = @ + 1, !.pc = "rcpt_wr"]
        ELSE [s EXCEPT !.ri = @ + 1, !.pc = "data_wr"]

\* cmd_data without the test of the reply
cmd_data_done_NoCheck(s) == [s EXCEPT !.pc = "body_wr"]

cmd_data_done(s) ==
    IF ~starts_with(s.response, P_3) THEN Return(s, Err("DATA failed", s.response))
    ELSE [s EXCEPT !.pc = "body_wr"]

\* send_one after the final reply (lines 201-207); in send, close follows
body_done(s) ==
    IF ~starts_with(s.response, P_2) THEN Return(s, Err("Failed to send body", s.response))
    ELSE LET s1 == [s EXCEPT !.fired = @ \cup {"on_sent"}]
         IN  IF s.op = "send_one" THEN Return(s1, Ok(s.response))
             ELSE [s1 EXCEPT !.pc = "quit_wr"]

(***************************************************************************)
(* The public calls as the caller starts them.                             *)
(***************************************************************************)
BeginCall(s, name) ==
    [s EXCEPT !.op = name, !.result = NoResult, !.wire = <<>>, !.fired = {},
              !.response = <<>>, !.ri = 0, !.waited = 0,
              !.hist.started = TRUE, !.hist.call = name,
              !.hist.opened = FALSE, !.hist.reads = FALSE,
              !.hist.replies = <<>>, !.hist.via = <<>>]

\* connect up to its first await (lines 141-166): the socket is opened, or the
\* open fails and `?` returns the error
connect_start(s, opened) ==
    IF ~opened THEN Return(s, Err("connect failed", <<>>))
    ELSE [s EXCEPT !.mailer = [NoMailer EXCEPT
                                 !.socket = Some([id |-> s.hist.socks + 1, tls |-> FALSE])],
                   !.session = "connecting",
                   !.net = "up", !.inbox = <<>>, !.srvq = <<"GREET">>,
                   !.pc = "greet_rd", !.response = <<>>,
                   !.hist.socks = @ + 1, !.hist.opened = TRUE, !.hist.failed = FALSE]

call_connect(o, opened) ==
    /\ pc = "idle" /\ ~hist.started
    /\ Apply(connect_start([BeginCall(St, "connect") EXCEPT !.opts = o], opened))

call_send(o, e, opened) ==
    /\ pc = "idle" /\ ~hist.started
    /\ Apply(connect_start([BeginCall(St, "send") EXCEPT !.opts = o, !.email_options = e],
                           opened))

\* send_one is explored on the sessions made with SendOptions
call_send_one(e) ==
    /\ pc = "idle" /\ session = "live" /\ sends < MaxSends /\ opts \in SendOptions
    /\ Apply(send_one_start([BeginCall(St, "send_one") EXCEPT
                               !.email_options = e, !.sends = @ + 1]))

call_close ==
    /\ pc = "idle" /\ session = "live"
    /\ Apply([BeginCall(St, "close") EXCEPT !.pc = "quit_wr"])

(***************************************************************************)
(* mailer.rs: one action per await point                                   *)
(***************************************************************************)
greet ==
    /\ pc = "greet_rd"
    /\ \E o \in ReadOutcomes(St) : Apply(ReadNext(o, greet_done))

ehlo_write ==
    /\ pc = "ehlo_wr"
    /\ Apply(Write(St, Cmd("EHLO", <<>>), "ehlo_rd"))

ehlo_read ==
    /\ pc = "ehlo_rd"
    /\ \E o \in ReadOutcomes(St) : Apply(ReadNext(o, ehlo_done))

helo_write ==
    /\ pc = "helo_wr"
    /\ Apply(Write(St, Cmd("HELO", <<>>), "helo_rd"))

helo_read ==
    /\ pc = "helo_rd"
    /\ \E o \in ReadOutcomes(St) : Apply(ReadNext(o, helo_done))

auth_plain_write ==
    /\ pc = "plain_wr"
    /\ LET c == opts.credentials[1]
       IN  Apply(Write(St, Cmd("AUTH PLAIN", B64(<<"\\0">> \o c.username \o <<"\\0">>
                                                  \o c.password)), "plain_rd"))

auth_plain_read ==
    /\ pc = "plain_rd"
    /\ \E o \in ReadOutcomes(St) : Apply(ReadNext(o, auth_plain_done))

auth_login_write ==
    /\ pc = "login_wr"
    /\ Apply(Write(St, Cmd("AUTH LOGIN", <<>>), "login_rd"))

auth_login_read ==
    /\ pc = "login_rd"
    /\ \E o \in ReadOutcomes(St) : Apply(ReadNext(o, auth_login_done))

auth_login_user_write ==
    /\ pc = "user_wr"
    /\ Apply(Write(St, Cmd("USER", B64(opts.credentials[1].username)), "user_rd"))

auth_login_user_read ==
    /\ pc = "user_rd"
    /\ \E o \in ReadOutcomes(St) : Apply(ReadNext(o, auth_login_user_done))

auth_login_pass_write ==
    /\ pc = "pass_wr"
    /\ Apply(Write(St, Cmd("PASS", B64(opts.credentials[1].password)), "pass_rd"))

auth_login_pass_read ==
    /\ pc = "pass_rd"
    /\ \E o \in ReadOutcomes(St) : Apply(ReadNext(o, auth_login_pass_done))

auth_cram_md5_write ==
    /\ pc = "cram_wr"
    /\ Apply(Write(St, Cmd("AUTH CRAM-MD5", <<>>), "cram_rd"))

auth_cram_md5_read ==
    /\ pc = "cram_rd"
    /\ \E o \in ReadOutcomes(St) : Apply(ReadNext(o, auth_cram_md5_done))

cmd_mail_write ==
    /\ pc = "mail_wr"
    /\ LET e == Email_new(email_options)
       IN  Apply(Write(St, Cmd("MAIL", Angle(e.from.email)
                                       \o (IF mailer.supports_dsn THEN <<" ">> ELSE <<>>)),
                       "mail_rd"))

cmd_mail_read ==
    /\ pc = "mail_rd"
    /\ \E o \in ReadOutcomes(St) : Apply(ReadNext(o, cmd_mail_done))

cmd_rcpt_write ==
    /\ pc = "rcpt_wr"
    /\ LET all == AllRecipients(Email_new(email_options))
       IN  Apply(Write(St, Cmd("RCPT", Angle(all[ri + 1].email)), "rcpt_rd"))

cmd_rcpt_read ==
    /\ pc = "rcpt_rd"
    /\ \E o \in ReadOutcomes(St) : Apply(ReadNext(o, cmd_rcpt_done))

cmd_data_write ==
    /\ pc = "data_wr"
    /\ Apply(Write(St, Cmd("DATA", <<>>), "data_rd"))

cmd_data_read ==
    /\ pc = "data_rd"
    /\ \E o \in ReadOutcomes(St) : Apply(ReadNext(o, cmd_data_done))

\* send_one lines 198-199: get_email_data and the write of the document
body_write ==
    /\ pc = "body_wr"
    /\ Apply(Write(St, Cmd("BODY", <<>>), "body_rd"))

body_read ==
    /\ pc = "body_rd"
    /\ \E o \in ReadOutcomes(St) : Apply(ReadNext(o, body_done))

\* close line 432: the result of the write is dropped
quit_write ==
    /\ pc = "quit_wr"
    /\ Apply(IF write_ok(St)
             THEN Write(St, Cmd("QUIT", <<>>), "quit_rd")
             ELSE [St EXCEPT !.pc = "quit_rd", !.response = <<>>])

\* close line 433: the result of read_response is dropped
quit_read ==
    /\ pc = "quit_rd"
    /\ \E o \in ReadOutcomes(St) :
          Apply(IF o.kind = "more" THEN o.s
                ELSE IF o.kind = "panic" THEN Return(o.s, Panicked)
                ELSE IF o.kind \in {"err", "undecodable"}
                THEN [o.s EXCEPT !.pc = "sock_close"]
                ELSE [Logged(o.s) EXCEPT !.pc = "sock_close"])

\* close lines 434-440 after the socket's close resolved with closed_ok
close_finish(s, closed_ok) ==
    IF ~closed_ok THEN Return(s, Err("close failed", <<>>))
    ELSE Return([s EXCEPT !.net = "closed", !.fired = @ \cup {"on_close"}], Ok(<<>>))

\* the close of a transport can fail once the connection is broken
close_socket ==
    /\ pc = "sock_close"
    /\ \E closed_ok \in (IF net = "err" THEN BOOLEAN ELSE {TRUE}) :
          Apply(close_finish(St, closed_ok))

(***************************************************************************)
(* queue.rs: process_batch                                                 *)
(***************************************************************************)
BatchMsgs == {[mailer_options |-> NoOptions, email_options |-> e] : e \in {M_ONE, M_NOBODY}}

call_process_batch(b) ==
    /\ pc = "idle" /\ ~hist.started
    /\ Apply([BeginCall(St, "process_batch") EXCEPT
                !.pc = "batch_loop", !.batch = b, !.results = <<>>,
                !.queue = [i \in 1..Len(b) |-> [acks |-> 0, retries |-> 0]]])

\* the loop takes the next message and calls send (lines 28-31)
batch_send(opened) ==
    /\ pc = "batch_loop" /\ Len(results) < Len(batch)
    /\ LET msg == batch[Len(results) + 1]
       IN  Apply(connect_start([BeginCall(St, "process_batch") EXCEPT
                                  !.opts = msg.mailer_options,
                                  !.email_options = msg.email_options], opened))

\* the loop is over: results is returned (line 50)
batch_return ==
    /\ pc = "batch_loop" /\ Len(results) = Len(batch)
    /\ Apply([St EXCEPT !.pc = "idle", !.op = "none"])

(***************************************************************************)
(* The environment: the server, the connection and the clock.              *)
(***************************************************************************)
\* the server answers the oldest command it has not answered
server_reply ==
    /\ net = "up" /\ srvq /= <<>>
    /\ \E r \in Replies(Head(srvq)) :
          Apply([St EXCEPT !.inbox = @ \o r, !.srvq = Tail(@), !.waited = 0])

\* the commands instead of whose answer the connection of the model may end
HangupAt == {"GREET", "RCPT", "BODY", "QUIT"}

\* instead of answering, the server closes the connection ("eof") or the
\* connection breaks ("err"); so it may while the client is about to send QUIT
server_hangup ==
    /\ net = "up"
    /\ \/ srvq /= <<>> /\ Head(srvq) \in HangupAt
       \/ pc = "quit_wr"
    /\ \E how \in {"eof", "err"} :
          Apply([St EXCEPT !.net = how, !.srvq = <<>>, !.waited = 0])

\* one response-timeout period passes while a read is pending and nothing has
\* arrived (waited counts the periods of the pending read; bytes that arrive end
\* the wait); no code of read_response looks at the clock
tick ==
    /\ pc \in ReadPcs /\ net = "up" /\ inbox = <<>> /\ waited < MaxWait
    /\ Apply([St EXCEPT !.waited = @ + 1])

(***************************************************************************)
(* The specification of the session and of the queue adapter.              *)
(***************************************************************************)
SessionInit ==
    /\ pc = "idle"
    /\ op = "none"
    /\ session = "none"
    /\ opts = NoOptions
    /\ mailer = NoMailer
    /\ email_options = M_ONE
    /\ response = <<>>
    /\ ri = 0
    /\ result = NoResult
    /\ wire = <<>>
    /\ inbox = <<>>
    /\ srvq = <<>>
    /\ net = "none"
    /\ waited = 0
    /\ sends = 0
    /\ fired = {}
    /\ hist = NoHist
    /\ batch = <<>>
    /\ results = <<>>
    /\ queue = <<>>

Init == SessionInit /\ pin = None /\ pout = None

Next ==
    \/ \E o \in OptionsSet, opened \in BOOLEAN : call_connect(o, opened)
    \/ \E o \in SendOptions, e \in SendInputs, opened \in BOOLEAN : call_send(o, e, opened)
    \/ \E e \in SendInputs : call_send_one(e)
    \/ call_close
    \/ \E b \in SeqsUpTo(BatchMsgs, MaxBatch) : call_process_batch(b)
    \/ \E opened \in BOOLEAN : batch_send(opened)
    \/ batch_return
    \/ greet
    \/ ehlo_write
    \/ ehlo_read
    \/ helo_write
    \/ helo_read
    \/ auth_plain_write
    \/ auth_plain_read
    \/ auth_login_write
    \/ auth_login_read
    \/ auth_login_user_write
    \/ auth_login_user_read
    \/ auth_login_pass_write
    \/ auth_login_pass_read
    \/ auth_cram_md5_write
    \/ auth_cram_md5_read
    \/ cmd_mail_write
    \/ cmd_mail_read
    \/ cmd_rcpt_write
    \/ cmd_rcpt_read
    \/ cmd_data_write
    \/ cmd_data_read
    \/ body_write
    \/ body_read
    \/ quit_write
    \/ quit_read
    \/ close_socket
    \/ server_reply
    \/ server_hangup
    \/ tick

Spec == Init /\ [][Next]_vars

(***************************************************************************)
(* Email::new as a function of its input.                                  *)
(***************************************************************************)
InitEmail == SessionInit /\ pin \in BuildInputs /\ pout = None

email_new ==
    /\ pout = None
    /\ pin \in BuildInputs
    /\ pout' = Some(Email_new(pin))
    /\ UNCHANGED <<pin, sessionVars>>

NextEmail == email_new

SpecEmail == InitEmail /\ [][NextEmail]_vars

(***************************************************************************)
(* parse_capabilities as a function of the EHLO response.                  *)
(***************************************************************************)
MaxLines == 3      \* lines of a drawn EHLO response

T_AUTH_PL   == <<"A", "U", "T", "H", " ", "P", "L", "A", "I", "N", " ", "L", "O", "G", "I", "N">>
T_AUTH_CRAM == <<"A", "U", "T", "H", " ", "C", "R", "A", "M", "-", "M", "D", "5">>
T_AUTH_LOW  == <<"a", "u", "t", "h", " ", "l", "o", "g", "i", "n">>
T_STARTTLS  == <<"S", "T", "A", "R", "T", "T", "L", "S">>
T_DSN       == <<"D", "S", "N">>
T_SIZE      == <<"S", "I", "Z", "E">>
T_HOST_DSN  == <<"d", "s", "n", ".", "e", "x">>
T_XPLAIN    == <<"X", " ", "P", "L", "A", "I", "N">>

LinePool == {T_AUTH_PL, T_AUTH_CRAM, T_AUTH_LOW, T_STARTTLS, T_DSN, T_SIZE, T_HOST_DSN,
             T_XPLAIN}

\* the 250 reply whose lines carry the texts ts: "250-" on every line but the last
RECURSIVE Reply250(_)
Reply250(ts) ==
    IF Len(ts) = 1 THEN <<"2", "5", "0", " ">> \o ts[1] \o <<CR, LF>>
    ELSE <<"2", "5", "0", "-">> \o ts[1] \o <<CR, LF>> \o Reply250(Tail(ts))

CapsInputs == {Reply250(ts) : ts \in SeqsUpTo(LinePool, MaxLines) \ {<<>>}}

InitCaps == SessionInit /\ pin \in CapsInputs /\ pout = None

\* ehlo line 285 on a session that has discovered nothing yet
parse ==
    /\ pout = None
    /\ pin \in CapsInputs
    /\ pout' = Some(parse_capabilities(NoMailer, pin))
    /\ UNCHANGED <<pin, sessionVars>>

NextCaps == parse

SpecCaps == InitCaps /\ [][NextCaps]_vars

(***************************************************************************)
(* utils.rs: encode_quoted_printable.  A text is its UTF-8 bytes, one      *)
(* element per byte: an ASCII byte is its character, another byte is named *)
(* by its value.                                                           *)
(***************************************************************************)
TAB  == "\t"
X_01 == "\\x01"    \* a control byte
X_C3 == "\\xC3"    \* the two bytes of U+00E9
X_A9 == "\\xA9"

\* the value of a byte of the texts of the model
byte(c) ==
    CASE c = X_01 -> 1
      [] c = TAB  -> 9
      [] c = LF   -> 10
      [] c = CR   -> 13
      [] c = " "  -> 32
      [] c = "."  -> 46
      [] c = "="  -> 61
      [] c = "?"  -> 63
      [] c = "_"  -> 95
      [] c = "a"  -> 97
      [] c = "b"  -> 98
      [] c = "h"  -> 104
      [] c = "i"  -> 105
      [] c = X_C3 -> 195
      [] c = X_A9 -> 169
      [] c = BAD  -> 255

HexUpper == <<"0", "1", "2", "3", "4", "5", "6", "7", "8", "9", "A", "B", "C", "D", "E", "F">>

\* format!("={:02X}", byte)
Escape(b) == <<"=", HexUpper[(b \div 16) + 1], HexUpper[(b % 16) + 1]>>

\* the wrap limit without the room kept for the soft line break
saturating_sub_None(a, b) == a

\* line_length.saturating_sub(3)
saturating_sub(a, b) == IF a >= b THEN a - b ELSE 0

\* the loop of encode_quoted_printable from index i (0-based, as in the code) with
\* current_line_length cur and the text produced so far in out
RECURSIVE qp_loop(_, _, _, _, _)
qp_loop(bytes, line_length, i, cur, out) ==
    IF ~(i < Len(bytes)) THEN out
    ELSE
    LET c == bytes[i + 1]
        b == byte(c)
    IN  IF b = 10 THEN qp_loop(bytes, line_length, i + 1, 0, out \o <<CR, LF>>)
        ELSE IF b = 13 /\ i + 1 < Len(bytes) /\ byte(bytes[i + 2]) = 10
        THEN qp_loop(bytes, line_length, i + 2, 0, out \o <<CR, LF>>)
        ELSE
        LET is_whitespace      == b = 32 \/ b = 9
            next_is_line_break == \/ i + 1 >= Len(bytes)
                                  \/ byte(bytes[i + 2]) = 10
                                  \/ byte(bytes[i + 2]) = 13
            needs_encoding     == \/ (b < 32 /\ (b /= 32 /\ b /= 9))
                                  \/ b > 126
                                  \/ b = 61
                                  \/ (is_whitespace /\ next_is_line_break)
            encoded            == IF b = 13 THEN <<"=", "0", "D">>
                                  ELSE IF needs_encoding THEN Escape(b)
                                  ELSE <<c>>
            wrap               == cur + Len(encoded) > saturating_sub(line_length, 3)
        IN  qp_loop(bytes, line_length, i + 1,
                    (IF wrap THEN 0 ELSE cur) + Len(encoded),
                    out \o (IF wrap THEN <<"=", CR, LF>> ELSE <<>>) \o encoded)

encode_quoted_printable(text, line_length) == qp_loop(text, line_length, 0, 0, <<>>)

MaxText  == 4      \* bytes of a drawn text
MaxWidth == 8      \* largest wrap width drawn

QPBytes == {"a", "=", " ", CR, LF, X_C3}

\* the calls of encode_quoted_printable in SpecQP
QPInputs == [text : SeqsUpTo(QPBytes, MaxText), line_length : 0..MaxWidth]

InitQP == SessionInit /\ pin \in QPInputs /\ pout = None

encode_qp ==
    /\ pout = None
    /\ pin \in QPInputs
    /\ pout' = Some(encode_quoted_printable(pin.text, pin.line_length))
    /\ UNCHANGED <<pin, sessionVars>>

NextQP == encode_qp

SpecQP == InitQP /\ [][NextQP]_vars

(***************************************************************************)
(* is_valid_email as a function of the address.                            *)
(***************************************************************************)
Rep(c, n) == [i \in 1..n |-> c]

LocalParts == {<<"a">>, <<"a", ".", "b">>, <<"e", "-", "1">>, <<"a", "_", "b">>,
               <<"a", " ", "b">>, <<>>, Rep("a", 64), Rep("a", 65)}

Domains == {<<"b", ".", "c", "o">>, <<"b", ".", "c">>, <<"b">>, <<"d", ".", "o", "r", "g">>,
            <<"b", ".", "c", "o", ".", "x">>, <<"-", "b", ".", "c", "o">>,
            <<"b", ".", ".", "c", "o">>, <<"f", "-", "g", ".", "n", "e", "t">>}

\* the addresses is_valid_email is applied to in SpecValid
ValidInputs ==
    {l \o <<"@">> \o d : l \in LocalParts, d \in Domains}
    \cup {A_EMPTY, A_WORD, A_GOOD \o <<"@">> \o <<"b", ".", "c", "o">>}

InitValid == SessionInit /\ pin \in ValidInputs /\ pout = None

validate ==
    /\ pout = None
    /\ pin \in ValidInputs
    /\ pout' = Some(is_valid_email(pin))
    /\ UNCHANGED <<pin, sessionVars>>

NextValid == validate

SpecValid == InitValid /\ [][NextValid]_vars

(***************************************************************************)
(* email.rs: resolve_headers, apply_dot_stuffing, get_email_data.          *)
(***************************************************************************)
\* F applied to the value of e, which is computed once
Bind(e, F(_)) == CHOOSE r \in {F(x) : x \in {e}} : TRUE

\* HashMap<String, String>: the entries as <<key, value>> pairs with distinct keys
contains_key_Never(m, k) == FALSE

\* HashMap::contains_key
contains_key(m, k) == \E i \in 1..Len(m) : m[i][1] = k

\* HashMap::insert
insert(m, k, v) ==
    IF \E i \in 1..Len(m) : m[i][1] = k
    THEN [i \in 1..Len(m) |-> IF m[i][1] = k THEN <<k, v>> ELSE m[i]]
    ELSE Append(m, <<k, v>>)

\* the value stored under a key that is present
get(m, k) == m[CHOOSE i \in 1..Len(m) : m[i][1] = k][2]

\* slice::join
RECURSIVE join(_, _)
join(parts, sep) ==
    IF parts = <<>> THEN <<>>
    ELSE IF Len(parts) = 1 THEN parts[1]
    ELSE parts[1] \o sep \o join(Tail(parts), sep)

\* the bytes of encode_header's encoded word
RECURSIVE q_encode(_)
q_encode(bytes) ==
    IF bytes = <<>> THEN <<>>
    ELSE LET b == byte(bytes[1])
         IN  (IF b >= 33 /\ b <= 126 /\ b /= 63 /\ b /= 61 /\ b /= 95 THEN <<bytes[1]>>
              ELSE IF b = 32 THEN <<"_">>
              ELSE Escape(b))
             \o q_encode(Tail(bytes))

\* utils.rs encode_header
encode_header(text) ==
    IF ~(\E i \in 1..Len(text) : byte(text[i]) > 127) THEN text
    ELSE <<"=", "?", "U", "T", "F", "-", "8", "?", "Q", "?">> \o q_encode(text)
         \o <<"?", "=">>

\* the display form of a User: "name" <email>, or the address alone
format_user(u) ==
    IF IsSome(u.name)
    THEN <<"\"">> \o encode_header(u.name[1]) \o <<"\"", " ", "<">> \o u.email \o <<">">>
    ELSE u.email

format_users(us) == join([i \in 1..Len(us) |-> format_user(us[i])], <<",", " ">>)

K_FROM       == <<"F", "r", "o", "m">>
K_TO         == <<"T", "o">>
K_SUBJECT    == <<"S", "u", "b", "j", "e", "c", "t">>
K_REPLY_TO   == <<"R", "e", "p", "l", "y", "-", "T", "o">>
K_CC         == <<"C", "c">>
K_BCC        == <<"B", "c", "c">>
K_DATE       == <<"D", "a", "t", "e">>
K_MESSAGE_ID == <<"M", "e", "s", "s", "a", "g", "e", "-", "I", "D">>

\* Email::resolve_headers; now is the text of worker::Date::now() and id the text of
\* Uuid::new_v4() at the time of the call
resolve_headers(self, now, id) ==
    Bind(self.headers, LAMBDA h0 :
    Bind(IF ~contains_key(h0, K_FROM) THEN insert(h0, K_FROM, format_user(self.from))
         ELSE h0, LAMBDA h1 :
    Bind(IF ~contains_key(h1, K_TO) THEN insert(h1, K_TO, format_users(self.to))
         ELSE h1, LAMBDA h2 :
    Bind(IF ~contains_key(h2, K_SUBJECT)
         THEN insert(h2, K_SUBJECT, encode_header(self.subject)) ELSE h2, LAMBDA h3 :
    Bind(IF IsSome(self.reply) /\ ~contains_key(h3, K_REPLY_TO)
         THEN insert(h3, K_REPLY_TO, format_user(self.reply[1])) ELSE h3, LAMBDA h4 :
    Bind(IF IsSome(self.cc) /\ ~contains_key(h4, K_CC)
         THEN insert(h4, K_CC, format_users(self.cc[1])) ELSE h4, LAMBDA h5 :
    Bind(IF IsSome(self.bcc) /\ ~contains_key(h5, K_BCC)
         THEN insert(h5, K_BCC, format_users(self.bcc[1])) ELSE h5, LAMBDA h6 :
    Bind(IF ~contains_key(h6, K_DATE) THEN insert(h6, K_DATE, now) ELSE h6, LAMBDA h7 :
    Bind(split(self.from.email, "@"), LAMBDA parts :
    Bind(IF Len(parts) >= 2 THEN parts[2] ELSE <<"l", "o", "c", "a", "l">>, LAMBDA domain :
    Bind(IF ~contains_key(h7, K_MESSAGE_ID)
         THEN insert(h7, K_MESSAGE_ID, <<"<">> \o id \o <<"@">> \o domain \o <<">">>)
         ELSE h7, LAMBDA h8 :
    [self EXCEPT !.headers = h8])))))))))))

HexLower == <<"0", "1", "2", "3", "4", "5", "6", "7", "8", "9", "a", "b", "c", "d", "e", "f">>

\* format!("{:02x}", b) over the bytes, concatenated
hex(bytes) ==
    [i \in 1..(2 * Len(bytes)) |->
        IF i % 2 = 1 THEN HexLower[(bytes[(i + 1) \div 2] \div 16) + 1]
        ELSE HexLower[(bytes[i \div 2] % 16) + 1]]

\* Email::generate_safe_boundary; bytes is the array after getrandom
generate_safe_boundary(prefix, bytes) ==
    LET unsafe == {"<", ">", "@", ",", ";", ":", "\\", "/", "[", "]", "?", "=", "\"", " "}
    IN  Bind(prefix \o hex(bytes), LAMBDA boundary :
        [i \in 1..Len(boundary) |-> IF boundary[i] \in unsafe THEN "_" ELSE boundary[i]])

\* str::to_lowercase on ASCII text
to_lowercase(s) ==
    [i \in 1..Len(s) |->
        IF s[i] \in Range(Upper) THEN Lower[CHOOSE j \in 1..26 : Upper[j] = s[i]] ELSE s[i]]

\* Email::get_mime_type
get_mime_type(filename) ==
    Bind(split(filename, "."), LAMBDA pieces :
    Bind(to_lowercase(pieces[Len(pieces)]), LAMBDA ext :
        CASE ext = <<"t", "x", "t">>  -> <<"t", "e", "x", "t", "/", "p", "l", "a", "i", "n">>
          [] ext = <<"h", "t", "m", "l">> -> <<"t", "e", "x", "t", "/", "h", "t", "m", "l">>
          [] ext = <<"c", "s", "v">>  -> <<"t", "e", "x", "t", "/", "c", "s", "v">>
          [] ext = <<"p", "d", "f">>  -> <<"a", "p", "p", "l", "i", "c", "a", "t", "i",
                                           "o", "n", "/", "p", "d", "f">>
          [] ext = <<"p", "n", "g">>  -> <<"i", "m", "a", "g", "e", "/", "p", "n", "g">>
          [] ext \in {<<"j", "p", "g">>, <<"j", "p", "e", "g">>} -> <<"i", "m", "a", "g",
                                                                      "e", "/", "j", "p",
                                                                      "e", "g">>
          [] ext = <<"g", "i", "f">>  -> <<"i", "m", "a", "g", "e", "/", "g", "i", "f">>
          [] ext = <<"z", "i", "p">>  -> <<"a", "p", "p", "l", "i", "c", "a", "t", "i",
                                           "o", "n", "/", "z", "i", "p">>
          [] OTHER -> <<"a", "p", "p", "l", "i", "c", "a", "t", "i", "o", "n", "/", "o",
                        "c", "t", "e", "t", "-", "s", "t", "r", "e", "a", "m">>))

\* slice::chunks(n)
RECURSIVE chunks(_, _)
chunks(bytes, n) ==
    IF bytes = <<>> THEN <<>>
    ELSE IF Len(bytes) <= n THEN <<bytes>>
    ELSE <<SubSeq(bytes, 1, n)>> \o chunks(SubSeq(bytes, n + 1, Len(bytes)), n)

\* std::str::from_utf8(chunk).unwrap_or(""): a chunk that cuts a two-byte character, or
\* holds a byte that starts none, is replaced by the empty text
from_utf8_or_empty(chunk) ==
    IF \A i \in 1..Len(chunk) :
          \/ chunk[i] \notin {X_C3, X_A9, BAD}
          \/ chunk[i] = X_C3 /\ i < Len(chunk) /\ chunk[i + 1] = X_A9
          \/ chunk[i] = X_A9 /\ i > 1 /\ chunk[i - 1] = X_C3
    THEN chunk ELSE <<>>

\* the lines written for the content of an attachment
content_lines(content) ==
    Bind(chunks(content, 72), LAMBDA cs :
    Bind([i \in 1..Len(cs) |-> from_utf8_or_empty(cs[i]) \o <<CR, LF>>], LAMBDA ls :
    join(ls, <<>>)))

\* the start positions of every occurrence of pat in s
Occurrences(s, pat) ==
    {i \in 1..(Len(s) - Len(pat) + 1) : SubSeq(s, i, i + Len(pat) - 1) = pat}

\* str::replace: the leftmost occurrences that do not overlap, from position i on
RECURSIVE replace_from(_, _, _, _, _)
replace_from(s, occ, n, rep, i) ==
    Bind({o \in occ : o >= i}, LAMBDA later :
        IF later = {} THEN SubSeq(s, i, Len(s))
        ELSE Bind(CHOOSE o \in later : \A p \in later : o <= p, LAMBDA m :
                  SubSeq(s, i, m - 1) \o rep \o replace_from(s, occ, n, rep, m + n)))

replace(s, pat, rep) ==
    Bind(Occurrences(s, pat), LAMBDA occ : replace_from(s, occ, Len(pat), rep, 1))

\* the stuffing that only looks at the first character of the document
apply_dot_stuffing_LeadingOnly(data) ==
    IF starts_with(data, <<".">>) THEN <<".">> \o data ELSE data

\* Email::apply_dot_stuffing
apply_dot_stuffing(data) ==
    Bind(replace(data, <<CR, LF, ".">>, <<CR, LF, ".", ".">>), LAMBDA stuffed :
        IF starts_with(stuffed, <<".">>) THEN <<".">> \o stuffed ELSE stuffed)

\* the order in which the entries of the map are visited: HashMap iteration order is
\* arbitrary, here the entries rotated by seed
iter(m, seed) ==
    IF m = <<>> THEN m
    ELSE [i \in 1..Len(m) |-> m[((i - 1 + seed) % Len(m)) + 1]]

\* the part written for one inline attachment
inline_part(att, related_boundary) ==
    LET mime == IF IsSome(att.mime_type) THEN att.mime_type[1] ELSE get_mime_type(att.filename)
    IN  <<"-", "-">> \o related_boundary \o <<CR, LF>>
        \o <<"C", "o", "n", "t", "e", "n", "t", "-", "T", "y", "p", "e", ":", " ">> \o mime
        \o <<";", " ", "n", "a", "m", "e", "=", "\"">> \o att.filename \o <<"\"", CR, LF>>
        \o <<"C", "o", "n", "t", "e", "n", "t", "-", "T", "r", "a", "n", "s", "f", "e",
             "r", "-", "E", "n", "c", "o", "d", "i", "n", "g", ":", " ", "b", "a", "s",
             "e", "6", "4", CR, LF>>
        \o <<"C", "o", "n", "t", "e", "n", "t", "-", "I", "D", ":", " ", "<">> \o (IF IsSome(att.cid) THEN att.cid[1] ELSE <<>>) \o <<">", CR, LF>>
        \o <<"C", "o", "n", "t", "e", "n", "t", "-", "D", "i", "s", "p", "o", "s", "i",
             "t", "i", "o", "n", ":", " ", "i", "n", "l", "i", "n", "e", ";", " ", "f",
             "i", "l", "e", "n", "a", "m", "e", "=", "\"">>
        \o att.filename \o <<"\"", CR, LF, CR, LF>>
        \o content_lines(att.content)
        \o <<CR, LF>>

\* the part written for one regular attachment
regular_part(att, mixed_boundary, now) ==
    LET mime == IF IsSome(att.mime_type) THEN att.mime_type[1] ELSE get_mime_type(att.filename)
    IN  <<"-", "-">> \o mixed_boundary \o <<CR, LF>>
        \o <<"C", "o", "n", "t", "e", "n", "t", "-", "T", "y", "p", "e", ":", " ">> \o mime
        \o <<";", " ", "n", "a", "m", "e", "=", "\"">> \o att.filename \o <<"\"", CR, LF>>
        \o <<"C", "o", "n", "t", "e", "n", "t", "-", "D", "e", "s", "c", "r", "i", "p",
             "t", "i", "o", "n", ":", " ">> \o att.filename \o <<CR, LF>>
        \o <<"C", "o", "n", "t", "e", "n", "t", "-", "D", "i", "s", "p", "o", "s", "i",
             "t", "i", "o", "n", ":", " ", "a", "t", "t", "a", "c", "h", "m", "e", "n",
             "t", ";", " ", "f", "i", "l", "e", "n", "a", "m", "e", "=", "\"">>
        \o att.filename \o <<"\"", ";", CR, LF>>
        \o <<" ", " ", " ", " ", "c", "r", "e", "a", "t", "i", "o", "n", "-", "d", "a",
             "t", "e", "=", "\"">> \o now \o <<"\"", ";", CR, LF>>
        \o <<"C", "o", "n", "t", "e", "n", "t", "-", "T", "r", "a", "n", "s", "f", "e",
             "r", "-", "E", "n", "c", "o", "d", "i", "n", "g", ":", " ", "b", "a", "s",
             "e", "6", "4", CR, LF, CR, LF>>
        \o content_lines(att.content)
        \o <<CR, LF>>

\* one text/plain or text/html alternative
alternative_part(kind, body, alternative_boundary) ==
    <<"-", "-">> \o alternative_boundary \o <<CR, LF>>
    \o <<"C", "o", "n", "t", "e", "n", "t", "-", "T", "y", "p", "e", ":", " ", "t", "e",
         "x", "t", "/">> \o kind
    \o <<";", " ", "c", "h", "a", "r", "s", "e", "t", "=", "\"", "U", "T", "F", "-", "8",
         "\"", CR, LF>>
    \o <<"C", "o", "n", "t", "e", "n", "t", "-", "T", "r", "a", "n", "s", "f", "e", "r",
         "-", "E", "n", "c", "o", "d", "i", "n", "g", ":", " ", "q", "u", "o", "t", "e",
         "d", "-", "p", "r", "i", "n", "t", "a", "b", "l", "e", CR, LF, CR, LF>>
    \o encode_quoted_printable(body, 76)
    \o <<CR, LF, CR, LF>>

\* the document built from the Email after header resolution, before dot-stuffing
build_email_data(self, entries, now, mixed_boundary, related_boundary, alternative_boundary) ==
    Bind(SelectSeq(OptList(self.attachments), LAMBDA a : IsSome(a.cid)),
         LAMBDA inline_attachments :
    Bind(SelectSeq(OptList(self.attachments), LAMBDA a : IsNone(a.cid)),
         LAMBDA regular_attachments :
    Bind(<<<<"M", "I", "M", "E", "-", "V", "e", "r", "s", "i", "o", "n", ":", " ", "1",
             ".", "0">>>>
         \o [i \in 1..Len(entries) |-> entries[i][1] \o <<":", " ">> \o entries[i][2]]
         \o <<<<"C", "o", "n", "t", "e", "n", "t", "-", "T", "y", "p", "e", ":", " ", "m",
                "u", "l", "t", "i", "p", "a", "r", "t", "/", "m", "i", "x", "e", "d", ";",
                " ", "b", "o", "u", "n", "d", "a", "r", "y", "=", "\"">>
              \o mixed_boundary \o <<"\"">> >>,
         LAMBDA headers_vec :
    Bind([i \in 1..Len(inline_attachments) |->
            inline_part(inline_attachments[i], related_boundary)], LAMBDA inline_parts :
    Bind([i \in 1..Len(regular_attachments) |->
            regular_part(regular_attachments[i], mixed_boundary, now)], LAMBDA regular_parts :
        join(headers_vec, <<CR, LF>>) \o <<CR, LF, CR, LF>>
        \o <<"-", "-">> \o mixed_boundary \o <<CR, LF>>
        \o (IF inline_attachments /= <<>>
            THEN <<"C", "o", "n", "t", "e", "n", "t", "-", "T", "y", "p", "e", ":", " ",
                   "m", "u", "l", "t", "i", "p", "a", "r", "t", "/", "r", "e", "l", "a",
                   "t", "e", "d", ";", " ", "b", "o", "u", "n", "d", "a", "r", "y", "=",
                   "\"">>
                 \o related_boundary \o <<"\"", CR, LF, CR, LF>>
                 \o <<"-", "-">> \o related_boundary \o <<CR, LF>>
            ELSE <<>>)
        \o <<"C", "o", "n", "t", "e", "n", "t", "-", "T", "y", "p", "e", ":", " ", "m",
             "u", "l", "t", "i", "p", "a", "r", "t", "/", "a", "l", "t", "e", "r", "n",
             "a", "t", "i", "v", "e", ";", " ", "b", "o", "u", "n", "d", "a", "r", "y",
             "=", "\"">>
        \o alternative_boundary \o <<"\"", CR, LF, CR, LF>>
        \o (IF IsSome(self.text)
            THEN alternative_part(<<"p", "l", "a", "i", "n">>, self.text[1], alternative_boundary)
            ELSE <<>>)
        \o (IF IsSome(self.html)
            THEN alternative_part(<<"h", "t", "m", "l">>, self.html[1], alternative_boundary)
            ELSE <<>>)
        \o <<"-", "-">> \o alternative_boundary \o <<"-", "-", CR, LF>>
        \o join(inline_parts, <<>>)
        \o (IF inline_attachments /= <<>>
            THEN <<"-", "-">> \o related_boundary \o <<"-", "-", CR, LF>>
            ELSE <<>>)
        \o join(regular_parts, <<>>)
        \o <<"-", "-">> \o mixed_boundary \o <<"-", "-", CR, LF>>)))))

\* Email::get_email_data.  env holds what the call takes from its environment: the text of
\* Date::now(), the text of the new uuid, the three arrays getrandom fills, and the seed of
\* the map's iteration order.  The result is the Email after the call (self), the document
\* before dot-stuffing (email_data) and the returned document (data).
get_email_data(self0, env) ==
    Bind(resolve_headers(self0, env.now, env.id), LAMBDA self :
    Bind(iter(self.headers, env.seed), LAMBDA entries :
    Bind(generate_safe_boundary(<<"m", "i", "x", "e", "d", "_">>, env.random[1]), LAMBDA mixed_boundary :
    Bind(generate_safe_boundary(<<"r", "e", "l", "a", "t", "e", "d", "_">>, env.random[2]), LAMBDA related_boundary :
    Bind(generate_safe_boundary(<<"a", "l", "t", "e", "r", "n", "a", "t", "i", "v", "e", "_">>, env.random[3]),
         LAMBDA alternative_boundary :
    Bind(build_email_data(self, entries, env.now, mixed_boundary, related_boundary,
                          alternative_boundary), LAMBDA email_data :
    Bind(apply_dot_stuffing(email_data), LAMBDA safe :
        [self |-> self, email_data |-> email_data,
         data |-> safe \o <<CR, LF, ".", CR, LF>>])))))))

(***************************************************************************)
(* Email::get_email_data as a function of the Email and of what the call   *)
(* takes from its environment.                                             *)
(***************************************************************************)
MaxRenders == 2    \* calls of get_email_data on one Email
MaxSeed    == 2    \* iteration orders of the headers map

BoundaryBytes == 28

\* the texts of worker::Date::now() at two moments
D_NOW1 == <<"F", "r", "i", " ", "N", "o", "v", " ", "0", "6", " ", "2", "0", "2", "6", " ",
            "0", "7", ":", "0", "0", ":", "0", "0", " ", "G", "M", "T", "+", "0", "0", "0",
            "0", " ", "(", "C", "o", "o", "r", "d", "i", "n", "a", "t", "e", "d", " ", "U",
            "n", "i", "v", "e", "r", "s", "a", "l", " ", "T", "i", "m", "e", ")">>
D_NOW2 == <<"F", "r", "i", " ", "N", "o", "v", " ", "0", "6", " ", "2", "0", "2", "6", " ",
            "0", "7", ":", "0", "0", ":", "0", "1", " ", "G", "M", "T", "+", "0", "0", "0",
            "0", " ", "(", "C", "o", "o", "r", "d", "i", "n", "a", "t", "e", "d", " ", "U",
            "n", "i", "v", "e", "r", "s", "a", "l", " ", "T", "i", "m", "e", ")">>
D_OLD  == <<"T", "h", "u", ",", " ", "1", " ", "J", "a", "n", " ", "1", "9", "7", "0", " ",
            "0", "0", ":", "0", "0", ":", "0", "0", " ", "+", "0", "0", "0", "0">>

\* two version-4 uuids
U_1 == <<"6", "f", "1", "c", "2", "a", "9", "e", "-", "3", "b", "4", "d", "-", "4", "e",
         "5", "f", "-", "8", "a", "7", "b", "-", "0", "c", "1", "d", "2", "e", "3", "f",
         "4", "a", "5", "b">>
U_2 == <<"0", "b", "9", "d", "8", "c", "7", "e", "-", "6", "f", "5", "a", "-", "4", "b",
         "3", "c", "-", "9", "d", "2", "e", "-", "1", "f", "0", "a", "9", "b", "8", "c",
         "7", "d", "6", "e">>

\* what getrandom leaves in the three arrays: untouched when it fails, random otherwise
RandomDraws ==
    {[k \in 1..3 |-> [i \in 1..BoundaryBytes |-> 0]],
     [k \in 1..3 |-> [i \in 1..BoundaryBytes |-> (37 * i + 101 * k) % 256]]}

\* the moments of a call: what Date::now() and Uuid::new_v4() return then
Moments == {[now |-> D_NOW1, id |-> U_1], [now |-> D_NOW2, id |-> U_2]}

Envs ==
    {[now |-> t.now, id |-> t.id, random |-> r, seed |-> k] :
        t \in Moments, r \in RandomDraws, k \in 0..(MaxSeed - 1)}

N_UTF8   == <<X_C3, X_A9, " ", "a", "?">>
K_X_NOTE == <<"X", "-", "N", "o", "t", "e">>
K_DOT    == <<".", "k">>

Attachment(filename, content, mime_type, cid) ==
    [filename |-> filename, content |-> content, mime_type |-> mime_type, cid |-> cid]

AT_TXT  == Attachment(<<"a", ".", "t", "x", "t">>, <<".", "a">>, None, None)
AT_LF   == Attachment(<<"b", ".", "b", "i", "n">>, <<"a", LF, ".", "b">>, Some(<<"t", "e",
                                                                                 "x", "t",
                                                                                 "/", "x">>), None)
AT_PNG  == Attachment(<<"c", ".", "P", "N", "G">>, Rep("a", 71) \o <<X_C3, X_A9, ".">>, None, Some(<<"c",
                                                                                                     "1">>))
AT_LONG == Attachment(<<"d">>, Rep("a", 72) \o <<".", "b">>, None, Some(<<"c", "2">>))

RenderBase ==
    [from |-> RecipientEmail(A_GOOD), to |-> <<RecipientEmail(A_GOOD2)>>,
     reply |-> None, cc |-> None, bcc |-> None, subject |-> <<"a", "b">>,
     text |-> Some(T_HI), html |-> None, attachments |-> None, headers |-> None]

RenderCc      == {None, Some(<<>>), Some(<<RecipientEmail(A_GOOD3)>>)}
RenderHeaders == {None,
                  Some(<<<<K_DATE, D_OLD>>, <<K_CC, <<"x">>>>>>),
                  Some(<<<<K_X_NOTE, <<"v", CR, LF, ".", "w", LF, ".">>>>, <<K_SUBJECT, <<".">>>>>>)}

\* the EmailOptions, with subject and attachments, of the Emails that are rendered
RenderInputs ==
    {[RenderBase EXCEPT !.cc = c, !.reply = r, !.headers = h] :
        c \in RenderCc, r \in {None, Some(RecipientEmail(A_GOOD3))}, h \in RenderHeaders}
    \cup {[RenderBase EXCEPT !.from = RecipientUser(A_GOOD, Some(n))] : n \in {N_UTF8, T_HI}}
    \cup {[RenderBase EXCEPT !.to = <<RecipientUser(A_GOOD2, Some(T_HI)), RecipientEmail(A_GOOD3)>>,
                             !.subject = N_UTF8]}
    \cup {[RenderBase EXCEPT !.bcc = b] :
            b \in {Some(<<>>), Some(<<RecipientEmail(A_GOOD2), RecipientEmail(A_GOOD3)>>)}}
    \cup {[RenderBase EXCEPT !.text = t, !.html = h] :
            t \in {None, Some(<<".">>), Some(<<"a", LF, ".", CR, LF, ".", ".", "b">>)},
            h \in {Some(<<".", "=">>), Some(<<>>)}}
    \cup {[RenderBase EXCEPT !.attachments = a] :
            a \in {Some(<<>>), Some(<<AT_TXT>>), Some(<<AT_PNG, AT_LF>>), Some(<<AT_LONG>>)}}
    \cup {[RenderBase EXCEPT !.headers = Some(<<<<K_DOT, <<"v">>>>, <<K_BCC, <<>>>>>>),
                             !.bcc = Some(<<>>)]}

InitRender == SessionInit /\ pin \in RenderInputs /\ pout = None

\* Email::new, then the fields of the Email
render_new ==
    /\ pout = None
    /\ pin \in RenderInputs
    /\ \E r \in {Email_new(pin)} :
           /\ r.ok
           /\ pout' = Some([self |-> [from |-> r.from, to |-> r.to, reply |-> r.reply,
                                      cc |-> r.cc, bcc |-> r.bcc, subject |-> pin.subject,
                                      text |-> r.text, html |-> r.html,
                                      attachments |-> pin.attachments, headers |-> r.headers],
                            calls |-> 0, now |-> <<>>, first |-> EmptyMap,
                            email_data |-> <<>>, data |-> <<>>])
    /\ UNCHANGED <<pin, sessionVars>>

\* one call of get_email_data on the Email
render_data ==
    /\ IsSome(pout)
    /\ pin \in RenderInputs
    /\ pout[1].calls < MaxRenders
    /\ \E env \in Envs :
         \E r \in {get_email_data(pout[1].self, env)} :
             pout' = Some([self |-> r.self, calls |-> pout[1].calls + 1, now |-> env.now,
                           first |-> IF pout[1].calls = 0 THEN r.self.headers
                                     ELSE pout[1].first,
                           email_data |-> r.email_data, data |-> r.data])
    /\ UNCHANGED <<pin, sessionVars>>

NextRender == render_new \/ render_data

SpecRender == InitRender /\ [][NextRender]_vars

(***************************************************************************)
(* Properties of the session (specification Spec).                         *)
(***************************************************************************)
\* C1: when the reply read for a RCPT TO does not begin with '2', the send has
\* returned the error that names the recipient this RCPT TO was written for and
\* carries that reply; that RCPT TO is the last command written, as many RCPT TO
\* were written as the position of the recipient, and neither DATA nor the
\* document was written.
C1_RcptRejectionAborts ==
    \A i \in 1..Len(hist.replies) :
        (hist.replies[i].verb = "RCPT" /\ ~starts_with(hist.replies[i].text, <<"2">>)) =>
            LET k   == Cardinality({j \in 1..i : hist.replies[j].verb = "RCPT"})
                all == AllRecipients(Email_new(email_options))
            IN  /\ i = Len(hist.replies)
                /\ pc = "idle"
                /\ result = ErrRcpt(all[k].email, hist.replies[i].text)
                /\ Cardinality({j \in 1..Len(wire) : wire[j].verb = "RCPT"}) = k
                /\ wire[Len(wire)] = Cmd("RCPT", Angle(all[k].email))
                /\ \A j \in 1..Len(wire) : wire[j].verb \notin {"DATA", "BODY"}

\* the second of three recipients was rejected with 550
C1_Witness ==
    /\ pc = "idle"
    /\ email_options = M_THREE
    /\ result = ErrRcpt(A_GOOD3, R550)
    /\ Cardinality({j \in 1..Len(wire) : wire[j].verb = "RCPT"}) = 2

\* C2: the document is written only after a reply to DATA that begins with '3';
\* any other reply to DATA has made the send fail with that reply and without
\* the document; once the final reply is read, the send has succeeded with that
\* reply text when it begins with '2' and has failed with it otherwise; send_one
\* succeeds in no other way.
C2_DataThenDocument ==
    LET rs      == hist.replies
        written == \E j \in 1..Len(wire) : wire[j].verb = "BODY"
    IN  /\ written =>
              \E i \in 1..Len(rs) : rs[i].verb = "DATA" /\ starts_with(rs[i].text, <<"3">>)
        /\ \A i \in 1..Len(rs) :
              (rs[i].verb = "DATA" /\ ~starts_with(rs[i].text, <<"3">>)) =>
                  /\ ~written
                  /\ pc = "idle" /\ ~result.ok /\ result.text = rs[i].text
        /\ \A i \in 1..Len(rs) :
              rs[i].verb = "BODY" =>
                  IF starts_with(rs[i].text, <<"2">>)
                  THEN /\ "on_sent" \in fired
                       /\ hist.call = "send_one" => (pc = "idle" /\ result = Ok(rs[i].text))
                  ELSE pc = "idle" /\ ~result.ok /\ result.text = rs[i].text
        /\ (hist.call = "send_one" /\ pc = "idle" /\ result.ok) =>
              /\ written
              /\ \E i \in 1..Len(rs) : rs[i].verb = "BODY" /\ starts_with(rs[i].text, <<"2">>)

\* send_one returned the final reply 250 after 354 to DATA
C2_Witness ==
    /\ hist.call = "send_one" /\ pc = "idle"
    /\ result = Ok(R250)
    /\ \E j \in 1..Len(wire) : wire[j].verb = "BODY"
    /\ \E i \in 1..Len(hist.replies) :
          hist.replies[i] = [verb |-> "DATA", text |-> R354]

\* C3: once send_one has returned a protocol failure on a session the caller
\* holds, the transport is closed; and no command is written on a transport on
\* which a failure was returned.  (The mailer of a failed connect or one-shot
\* send is dropped by the call; the first conjunct does not speak of it.)
C3_FailureClosesTransport ==
    /\ (hist.failed /\ session = "live") => net = "closed"
    /\ ~hist.wroteAfterFail

\* C4: an AUTH command that was written is the one of the first mechanism of the
\* configured list that the server advertised, and "No supported auth method" is
\* returned only when no configured mechanism is advertised.
C4_FirstPreferredMechanism ==
    LET conf  == opts.auth_type
        I     == {i \in 1..Len(conf) : Has(mailer.auth_type_supported, conf[i])}
        first == IF I = {} THEN "none" ELSE conf[CHOOSE i \in I : \A j \in I : i <= j]
        verb  == CASE first = "Plain"   -> "AUTH PLAIN"
                   [] first = "Login"   -> "AUTH LOGIN"
                   [] first = "CramMd5" -> "AUTH CRAM-MD5"
                   [] OTHER             -> "none"
        auths == {j \in 1..Len(wire) :
                     wire[j].verb \in {"AUTH PLAIN", "AUTH LOGIN", "AUTH CRAM-MD5"}}
    IN  /\ \A j \in auths : wire[j].verb = verb
        /\ result.kind = "No supported auth method" => (first = "none" /\ auths = {})

\* C6: a call that has returned a validation error has opened no connection,
\* written nothing and read nothing.
C6_ValidationBeforeIO ==
    (pc = "idle" /\ result.kind \in {"InvalidContent", "InvalidEmail"}) =>
        (~hist.opened /\ ~hist.reads /\ wire = <<>>)

\* C7: no read stays pending after a whole response timeout has passed without
\* a byte from the server: the timeout has made the call return.
C7_ReadBoundedByTimeout == pc \in ReadPcs => waited <= 1

\* C8: when close has returned, the on_close hook has fired.
C8_CloseHookAlwaysFires == (pc = "idle" /\ hist.call = "close") => "on_close" \in fired

C5_CapabilitiesByLine ==
    IsSome(pout) =>
        LET m  == pout[1]
            ls == lines(pin)
            \* the words of a line after its code and separator
            CapWords(line) == split(to_uppercase(SubSeq(line, 5, Len(line))), " ")
            \* some line carries the capability keyword
            Carries(resp, keyword) == \E i \in 1..Len(ls) : CapWords(ls[i])[1] = keyword
            \* some AUTH line names the mechanism
            Names(resp, mechanism) ==
                \E i \in 1..Len(ls) :
                    /\ CapWords(ls[i])[1] = W_AUTH
                    /\ \E k \in 2..Len(CapWords(ls[i])) : CapWords(ls[i])[k] = mechanism
        IN  /\ m.allow_auth = Carries(pin, W_AUTH)
            /\ Has(m.auth_type_supported, "Plain") = Names(pin, W_PLAIN)
            /\ Has(m.auth_type_supported, "Login") = Names(pin, W_LOGIN)
            /\ Has(m.auth_type_supported, "CramMd5") = Names(pin, W_CRAM_MD5)
            /\ m.supports_start_tls = Carries(pin, W_STARTTLS)
            /\ m.supports_dsn = Carries(pin, W_DSN)

(***************************************************************************)
(* Properties of Email::new (specification SpecEmail).                     *)
(***************************************************************************)
\* C10: Email::new returns InvalidContent exactly when text and html are both
\* absent, whatever the addresses are, and returns the Email when one of them is
\* present and every from/to/reply/cc/bcc address is valid.
C10_InvalidContentFirst ==
    IsSome(pout) =>
        LET e      == pout[1]
            nobody == IsNone(pin.text) /\ IsNone(pin.html)
            addrs  == AddressesOf(pin)
        IN  /\ (e.kind = "InvalidContent") = nobody
            /\ (~nobody /\ \A i \in 1..Len(addrs) : is_valid_email(addrs[i])) => e.ok

\* InvalidContent was returned for an input that also has a malformed address
C10_Witness ==
    /\ IsSome(pout)
    /\ pout[1].kind = "InvalidContent"
    /\ \E i \in 1..Len(AddressesOf(pin)) : ~is_valid_email(AddressesOf(pin)[i])

\* C11: when text or html is present and some address of from, to, reply, cc,
\* bcc is malformed, Email::new returns InvalidEmail with exactly the malformed
\* addresses, every one of them, in the order from, to, reply, cc, bcc.
C11_AllInvalidCollected ==
    IsSome(pout) =>
        LET e         == pout[1]
            addrs     == AddressesOf(pin)
            Bad(a)    == ~is_valid_email(a)
            malformed == SelectSeq(addrs, Bad)
        IN  (~(IsNone(pin.text) /\ IsNone(pin.html)) /\ malformed /= <<>>) =>
                /\ e.kind = "InvalidEmail"
                /\ e.invalid_emails = malformed

\* three or more malformed addresses, the first of them not the sender's
C11_Witness ==
    /\ IsSome(pout)
    /\ pout[1].kind = "InvalidEmail"
    /\ Len(pout[1].invalid_emails) >= 3
    /\ is_valid_email(pin.from.email)

(***************************************************************************)
(* Properties of encode_quoted_printable (specification SpecQP).           *)
(***************************************************************************)
\* C15 as stated: for every text and every wrap width, no line of the output,
\* the '=' of a soft line break counted, is longer than the wrap width, and
\* every '=' of the output that is not a soft line break has its two
\* hexadecimal digits on the same line.
C15_LinesWithinWidth ==
    IsSome(pout) =>
        LET ls == lines(pout[1])
        IN  \A k \in 1..Len(ls) :
                /\ Len(ls[k]) <= pin.line_length
                /\ \A i \in 1..Len(ls[k]) :
                      ls[k][i] = "=" =>
                          \/ i = Len(ls[k]) /\ k < Len(ls)
                          \/ /\ i + 2 <= Len(ls[k])
                             /\ ls[k][i + 1] \in Range(HexUpper)
                             /\ ls[k][i + 2] \in Range(HexUpper)

\* C15 for the wrap widths that leave room for an escape and a soft line break
\* (4 and more): no line of the output is longer than the wrap width, and no
\* escape is split across two lines.
C15_LinesWithinWidthFrom4 == (IsSome(pout) /\ pin.line_length >= 4) => C15_LinesWithinWidth

\* an escape was moved whole to the next line of a wrapped output
C15_Witness ==
    /\ IsSome(pout)
    /\ pin.line_length = 5
    /\ pin.text = <<"a", "a", X_C3>>
    /\ pout[1] = <<"a", "a", "=", CR, LF, "=", "C", "3">>

(***************************************************************************)
(* Properties of is_valid_email (specification SpecValid).                 *)
(***************************************************************************)
\* C16: is_valid_email accepts a@b.co and rejects the empty string, a string
\* without '@', an address whose last domain label has one character, an
\* address whose domain has no '.', and an address whose local part has more
\* than 64 characters.
C16_ValidEmailCases ==
    IsSome(pout) =>
        LET parts  == split(pin, "@")
            local  == parts[1]
            domain == parts[Len(parts)]
            labels == split(domain, ".")
        IN  /\ pin = A_GOOD => pout[1]
            /\ pin = <<>> => ~pout[1]
            /\ Len(parts) = 1 => ~pout[1]
            /\ (Len(parts) >= 2 /\ Len(labels[Len(labels)]) = 1) => ~pout[1]
            /\ (Len(parts) >= 2 /\ Len(labels) = 1) => ~pout[1]
            /\ (Len(parts) >= 2 /\ Len(local) > 64) => ~pout[1]

\* an address with a local part of 65 characters and a good domain was rejected,
\* as was not the same address with 64
C16_Witness ==
    /\ IsSome(pout)
    /\ pin = Rep("a", 65) \o <<"@", "b", ".", "c", "o">>
    /\ ~pout[1]
    /\ is_valid_email(Rep("a", 64) \o <<"@", "b", ".", "c", "o">>)

(***************************************************************************)
(* Properties of the session (specification Spec), continued.              *)
(***************************************************************************)
\* C17: a read is not left pending once the accumulated text ends with a
\* complete final line (a line whose 4th character is not '-'), and, while the
\* server has not closed the connection, every response read_response returned
\* ends with such a line.
C17_ReadReturnsAtFinalLine ==
    LET Final(l)    == ~(Len(l) >= 4 /\ l[4] = "-")
        Complete(r) == /\ r /= <<>>
                       /\ ends_with(r, <<LF>>)
                       /\ Final(lines(r)[Len(lines(r))])
    IN  /\ pc \in ReadPcs => ~Complete(response)
        /\ net = "up" => \A i \in 1..Len(hist.replies) : Complete(hist.replies[i].text)

\* C18: in the call that connects, a transport that was upgraded to TLS was
\* upgraded after a STARTTLS command, written after the first EHLO and followed
\* by the second EHLO, and every AUTH command comes after that second EHLO.
C18_StartTlsCommandWritten ==
    (/\ hist.call \in {"connect", "send", "process_batch"}
     /\ IsSome(mailer.socket) /\ mailer.socket[1].tls) =>
        \E j \in 2..Len(wire) :
            /\ wire[j].verb = "STARTTLS"
            /\ wire[j - 1].verb = "EHLO"
            /\ j < Len(wire) => wire[j + 1].verb = "EHLO"
            /\ \A k \in 1..Len(wire) :
                  wire[k].verb \in {"AUTH PLAIN", "AUTH LOGIN", "AUTH CRAM-MD5"} => k > j + 1

\* C19: once the EHLO made after the TLS upgrade is answered with a 2xx reply,
\* allow_auth, the supported mechanisms and supports_dsn are what the parse of
\* that reply alone gives; once it is answered otherwise and HELO is accepted,
\* they are empty.
C19_CapabilitiesRediscovered ==
    LET rs    == hist.replies
        ehlos == {i \in 1..Len(rs) : rs[i].verb = "EHLO"}
        caps(m) == <<m.allow_auth, m.auth_type_supported, m.supports_dsn>>
    IN  (/\ hist.call \in {"connect", "send", "process_batch"}
         /\ IsSome(mailer.socket) /\ mailer.socket[1].tls
         /\ Cardinality(ehlos) = 2) =>
            LET second == rs[CHOOSE i \in ehlos : \A j \in ehlos : j <= i].text
            IN  /\ starts_with(second, <<"2">>) =>
                      caps(mailer) = caps(parse_capabilities(NoMailer, second))
                /\ (\E i \in 1..Len(rs) :
                        rs[i].verb = "HELO" /\ starts_with(rs[i].text, <<"2">>)) =>
                      caps(mailer) = caps(NoMailer)

\* C20: the RCPT TO commands written are, in order, those of the first
\* recipients of to, then cc, then bcc, duplicates kept; none is written before a
\* 2xx reply to MAIL FROM was read, nor before a 2xx reply to the RCPT TO ahead
\* of it; and DATA is written only after all of them were written and accepted.
C20_RcptOrder ==
    LET e      == Email_new(email_options)
        expect == e.to \o (IF IsSome(e.cc) THEN e.cc[1] ELSE <<>>)
                       \o (IF IsSome(e.bcc) THEN e.bcc[1] ELSE <<>>)
        rcpts  == SelectSeq(wire, LAMBDA w : w.verb = "RCPT")
        rs     == hist.replies
        ok2    == {i \in 1..Len(rs) : rs[i].verb = "RCPT" /\ starts_with(rs[i].text, <<"2">>)}
        data   == {j \in 1..Len(wire) : wire[j].verb = "DATA"}
    IN  (\E j \in 1..Len(wire) : wire[j].verb = "MAIL") =>
            /\ Len(rcpts) <= Len(expect)
            /\ \A k \in 1..Len(rcpts) : rcpts[k].arg = <<"<">> \o expect[k].email \o <<">">>
            /\ rcpts /= <<>> =>
                  \E i \in 1..Len(rs) : rs[i].verb = "MAIL" /\ starts_with(rs[i].text, <<"2">>)
            /\ (\E i \in 1..Len(rs) : rs[i].verb = "MAIL" /\ ~starts_with(rs[i].text, <<"2">>)) =>
                  (rcpts = <<>> /\ pc = "idle" /\ ~result.ok)
            /\ Len(rcpts) <= Cardinality(ok2) + 1
            /\ \A j \in data :
                  /\ Len(rcpts) = Len(expect)
                  /\ Cardinality(ok2) = Len(expect)
                  /\ \A k \in 1..Len(wire) : wire[k].verb = "RCPT" => k < j

\* DATA was written after the four RCPT TO of a message whose cc list repeats
\* the to address
C20_Witness ==
    /\ email_options = M_THREE
    /\ \E j \in 1..Len(wire) : wire[j].verb = "DATA"
    /\ Len(SelectSeq(wire, LAMBDA w : w.verb = "RCPT")) = 4

(***************************************************************************)
(* Properties of get_email_data (specification SpecRender).                *)
(***************************************************************************)
\* C12: the document returned by get_email_data is the document built before
\* dot-stuffing, line by line (lines end with CRLF): a line that began with '.'
\* has exactly one more leading '.', every other line is unchanged, and the
\* sequence CRLF '.' CRLF occurs exactly once in it, as its last bytes.
C12_DotStuffedOnce ==
    (IsSome(pout) /\ pout[1].calls >= 1) =>
        LET RECURSIVE Sorted(_)
            Sorted(S) == IF S = {} THEN <<>>
                         ELSE LET m == CHOOSE x \in S : \A y \in S : x <= y
                              IN  <<m>> \o Sorted(S \ {m})
            Lines(s)  == LET brk == Sorted(Occurrences(s, <<CR, LF>>))
                         IN  [k \in 1..(Len(brk) + 1) |->
                                SubSeq(s, IF k = 1 THEN 1 ELSE brk[k - 1] + 2,
                                          IF k = Len(brk) + 1 THEN Len(s) ELSE brk[k] - 1)]
            data == pout[1].data
            rl   == Lines(pout[1].email_data)
            sl   == Lines(SubSeq(data, 1, Len(data) - 5))
        IN  /\ Occurrences(data, <<CR, LF, ".", CR, LF>>) = {Len(data) - 4}
            /\ Len(sl) = Len(rl)
            /\ \A k \in 1..Len(rl) :
                 sl[k] = IF starts_with(rl[k], <<".">>) THEN <<".">> \o rl[k] ELSE rl[k]

\* a text whose second line is "." and whose third line is "..b" was rendered, and
\* the document before stuffing has lines that begin with '.'
C12_Witness ==
    /\ IsSome(pout)
    /\ pout[1].calls >= 1
    /\ pin.text = Some(<<"a", LF, ".", CR, LF, ".", ".", "b">>)
    /\ Cardinality(Occurrences(pout[1].email_data, <<CR, LF, ".">>)) >= 2

\* C13: after header resolution a Reply-To, Cc or Bcc key the caller did not
\* supply is in the headers map only when the Email has a reply address, at
\* least one cc recipient or at least one bcc recipient.
C13_NoPlaceholderHeaders ==
    (IsSome(pout) /\ pout[1].calls >= 1) =>
        LET self        == pout[1].self
            given       == OptList(pin.headers)
            Supplied(k) == \E i \in 1..Len(given) : given[i][1] = k
            Present(k)  == \E i \in 1..Len(self.headers) : self.headers[i][1] = k
        IN  /\ (Present(K_REPLY_TO) /\ ~Supplied(K_REPLY_TO)) => IsSome(self.reply)
            /\ (Present(K_CC) /\ ~Supplied(K_CC)) => Len(OptList(self.cc)) >= 1
            /\ (Present(K_BCC) /\ ~Supplied(K_BCC)) => Len(OptList(self.bcc)) >= 1

\* C14: after header resolution every entry the caller supplied is in the
\* headers map unchanged, every other key is one of the eight defaults, no key
\* occurs twice, and a second call of get_email_data leaves the map as the first
\* call left it.
C14_HeadersKeptOnceSet ==
    (IsSome(pout) /\ pout[1].calls >= 1) =>
        LET h        == pout[1].self.headers
            given    == OptList(pin.headers)
            defaults == {K_FROM, K_TO, K_SUBJECT, K_REPLY_TO, K_CC, K_BCC, K_DATE, K_MESSAGE_ID}
        IN  /\ \A i \in 1..Len(given) : \E j \in 1..Len(h) : h[j] = given[i]
            /\ \A j \in 1..Len(h) :
                 \/ h[j][1] \in defaults
                 \/ \E i \in 1..Len(given) : given[i][1] = h[j][1]
            /\ \A j, k \in 1..Len(h) : h[j][1] = h[k][1] => j = k
            /\ pout[1].calls >= 2 => h = pout[1].first

\* an Email whose caller supplied a Subject and no Date was rendered twice, the second
\* time at a later moment than the one its Date header names
C14_Witness ==
    /\ IsSome(pout)
    /\ pout[1].calls = 2
    /\ pin.headers = Some(<<<<K_X_NOTE, <<"v", CR, LF, ".", "w", LF, ".">>>>, <<K_SUBJECT, <<".">>>>>>)
    /\ pout[1].now = D_NOW2
    /\ \E j \in 1..Len(pout[1].first) : pout[1].first[j] = <<K_DATE, D_NOW1>>

(***************************************************************************)
(* Properties of the handshake, of authentication and of the transport     *)
(* (specification Spec).                                                   *)
(***************************************************************************)
\* C21: in the call that connects, a reply to EHLO beginning with 421 makes the
\* call fail with nothing written after that EHLO; any other reply to EHLO not
\* beginning with '2' is followed by HELO and by no other command, and once HELO
\* was written no EHLO and no AUTH command is written after it, a non-2xx reply
\* to HELO failing the call; after a 2xx reply to EHLO the next command is not
\* HELO.
C21_EhloReplyDecides ==
    LET rs == hist.replies
        AuthVerbs == {"AUTH PLAIN", "AUTH LOGIN", "AUTH CRAM-MD5"}
    IN  hist.call \in {"connect", "send", "process_batch"} =>
          \A i \in 2..Len(rs) :
            /\ (rs[i].verb = "EHLO" /\ starts_with(rs[i].text, <<"4", "2", "1">>)) =>
                  (Len(wire) = i - 1 /\ pc = "idle" /\ ~result.ok)
            /\ (/\ rs[i].verb = "EHLO"
                /\ ~starts_with(rs[i].text, <<"2">>)
                /\ ~starts_with(rs[i].text, <<"4", "2", "1">>)) =>
                  /\ Len(wire) >= i => wire[i].verb = "HELO"
                  /\ \A k \in (i + 1)..Len(wire) : wire[k].verb \notin AuthVerbs \cup {"EHLO"}
            /\ (rs[i].verb = "HELO" /\ ~starts_with(rs[i].text, <<"2">>)) =>
                  (Len(wire) = i - 1 /\ pc = "idle" /\ ~result.ok)
            /\ (rs[i].verb = "EHLO" /\ starts_with(rs[i].text, <<"2">>) /\ Len(wire) >= i) =>
                  wire[i].verb /= "HELO"

\* C22: in the call that connects nothing is written before a greeting beginning
\* with 220 was read, and after any other greeting (the empty one read when the
\* server closed the connection included) the call has failed with an
\* SmtpConnectionError and nothing was written.
C22_GreetingGatesConnect ==
    LET rs == hist.replies
    IN  hist.call \in {"connect", "send"} =>
          /\ wire /= <<>> =>
                (rs /= <<>> /\ rs[1].verb = "GREET" /\ starts_with(rs[1].text, P_220))
          /\ (rs /= <<>> /\ ~starts_with(rs[1].text, P_220)) =>
                /\ wire = <<>> /\ pc = "idle" /\ ~result.ok
                /\ result.type = "SmtpConnectionError"

\* C23: in the call that connects, no AUTH command is written unless a 2xx reply
\* to EHLO that was read names AUTH, and none is written without credentials;
\* "Auth required but no credentials" is returned only after such a reply, as an
\* SmtpAuthError; and a connect without credentials to a server that advertised
\* AUTH does not succeed.
C23_AuthOnlyWhenAdvertised ==
    LET rs == hist.replies
        advertised == \E i \in 1..Len(rs) :
                          /\ rs[i].verb = "EHLO" /\ starts_with(rs[i].text, P_2)
                          /\ contains(to_uppercase(rs[i].text), <<"A", "U", "T", "H">>)
        auths == {j \in 1..Len(wire) :
                     wire[j].verb \in {"AUTH PLAIN", "AUTH LOGIN", "AUTH CRAM-MD5"}}
        noCreds == result.kind = "Auth required but no credentials"
    IN  hist.call \in {"connect", "send"} =>
          /\ ~advertised => (auths = {} /\ ~noCreds)
          /\ IsNone(opts.credentials) => auths = {}
          /\ (advertised /\ IsNone(opts.credentials)) => "on_connect" \notin fired
          /\ (advertised /\ IsNone(opts.credentials) /\ pc = "idle" /\ ~result.ok
                /\ result.kind \notin {"read error", "invalid utf-8", "write error", "HELO failed",
                                       "EHLO failed"}) => noCreds
          /\ noCreds => result.type = "SmtpAuthError"

\* C24: in the call that connects, once CRAM-MD5 was selected (its command is
\* about to be written or was written) the AUTH CRAM-MD5 command is the last
\* command of the call, no AUTH PLAIN, AUTH LOGIN, username or password is
\* written, the on_connect hook is not invoked, the session is not handed to the
\* caller, and the call, once it has returned, has returned an error.
C24_CramMd5AlwaysFails ==
    LET cram == {j \in 1..Len(wire) : wire[j].verb = "AUTH CRAM-MD5"}
    IN  (/\ hist.call \in {"connect", "send"}
         /\ (pc \in {"cram_wr", "cram_rd"} \/ cram /= {})) =>
            /\ \A j \in cram : j = Len(wire)
            /\ \A j \in 1..Len(wire) :
                  wire[j].verb \notin {"AUTH PLAIN", "AUTH LOGIN", "USER", "PASS"}
            /\ "on_connect" \notin fired
            /\ session /= "live"
            /\ pc \in {"cram_wr", "cram_rd"} \/ (pc = "idle" /\ ~result.ok)

\* connect has returned after the server answered AUTH CRAM-MD5 with a challenge
\* that decodes
C24_Witness ==
    /\ pc = "idle" /\ hist.call = "connect"
    /\ result.kind = "CRAM-MD5 not fully implemented"
    /\ \E i \in 1..Len(hist.replies) :
          hist.replies[i] = [verb |-> "AUTH CRAM-MD5", text |-> R334]

\* C25: in the call that connects, the base64 username is written only directly
\* after AUTH LOGIN and a 3xx reply to it, the base64 password only directly
\* after the username and a 3xx reply to it; a reply of another class to AUTH
\* LOGIN or to the username, or a non-2xx reply to the password, is the last
\* reply of the call, which has failed with nothing written after it and without
\* the on_connect hook; and a 2xx reply to the password completes connect.
C25_LoginExchange ==
    LET rs == hist.replies
        c  == opts.credentials[1]
        Failed(i) == /\ Len(rs) = i /\ Len(wire) = i - 1
                     /\ pc = "idle" /\ ~result.ok /\ "on_connect" \notin fired
    IN  hist.call \in {"connect", "send"} =>
          /\ \A j \in 1..Len(wire) :
                /\ wire[j].verb = "USER" =>
                      /\ j >= 2 /\ wire[j - 1].verb = "AUTH LOGIN"
                      /\ rs[j].verb = "AUTH LOGIN" /\ starts_with(rs[j].text, P_3)
                      /\ wire[j].arg = B64(c.username)
                /\ wire[j].verb = "PASS" =>
                      /\ j >= 3 /\ wire[j - 1].verb = "USER"
                      /\ rs[j].verb = "USER" /\ starts_with(rs[j].text, P_3)
                      /\ wire[j].arg = B64(c.password)
          /\ \A i \in 1..Len(rs) :
                /\ (rs[i].verb \in {"AUTH LOGIN", "USER"} /\ ~starts_with(rs[i].text, P_3)) =>
                      Failed(i)
                /\ (rs[i].verb = "PASS" /\ ~starts_with(rs[i].text, P_2)) => Failed(i)
                /\ (rs[i].verb = "PASS" /\ starts_with(rs[i].text, P_2)) =>
                      "on_connect" \in fired

\* connect has returned Ok after the three steps of the LOGIN exchange
C25_Witness ==
    /\ pc = "idle" /\ hist.call = "connect" /\ result.ok
    /\ \E j \in 3..Len(wire) :
          /\ wire[j].verb = "PASS" /\ wire[j - 1].verb = "USER"
          /\ wire[j - 2].verb = "AUTH LOGIN"
    /\ hist.replies[Len(hist.replies)] = [verb |-> "PASS", text |-> R235]

\* C26: a step of read_response that takes a chunk which is not valid UTF-8
\* leaves the accumulated response as it was and leaves the read in progress.
C26_UndecodableChunkSkipped ==
    [][(/\ pc \in ReadPcs
        /\ Len(inbox') < Len(inbox)
        /\ ~decode_ok(SubSeq(inbox, 1, Len(inbox) - Len(inbox')))) =>
            (pc' = pc /\ response' = response /\ result' = result)]_vars

\* C27: at most one command is unanswered at any time; when a command has just
\* been written and the server has not answered it yet, no byte of an earlier
\* reply is still unread; and, while the server has not closed the connection,
\* every response read_response returned for a command is a whole reply of the
\* server to that command.
C27_RequestThenResponse ==
    /\ Len(srvq) <= 1
    /\ (pc \in ReadPcs /\ srvq /= <<>>) => (inbox = <<>> /\ response = <<>>)
    /\ net = "up" =>
          \A i \in 1..Len(hist.replies) :
              hist.replies[i].text \in Replies(hist.replies[i].verb)

\* C28: while a call is at a read or at a write the socket slot holds a handle,
\* and no call has panicked on an empty slot; every read and every write of the
\* call went to the transport opened last, through the handle the slot holds
\* now, except that in the call that upgraded the transport the greeting and
\* the first EHLO exchange (the three operations before the upgrade) went
\* through the plaintext handle: no operation after the upgrade did.
C28_OneHandle ==
    /\ pc \notin {"idle", "batch_loop"} => IsSome(mailer.socket)
    /\ result.kind /= "panicked"
    /\ IsSome(mailer.socket) =>
          LET cur   == mailer.socket[1]
              via   == hist.via
              fresh == hist.call \in {"connect", "send", "process_batch"} /\ cur.tls
          IN  /\ cur.id = hist.socks
              /\ \A k \in 1..Len(via) :
                    \/ via[k].sock = cur
                    \/ fresh /\ k <= 3 /\ via[k].sock = [id |-> cur.id, tls |-> FALSE]
              /\ fresh => \A k \in 1..Len(via) : k <= 3 => ~via[k].sock.tls

\* in the call that connects, the reply to the first EHLO was read through the
\* plaintext handle, the upgrade was made, and EHLO was written again and its
\* reply read through the encrypted handle
C28_Witness ==
    /\ hist.call = "connect" /\ IsSome(mailer.socket) /\ mailer.socket[1].tls
    /\ Len(hist.via) >= 5
    /\ hist.via[3] = [dir |-> "read", sock |-> [id |-> 1, tls |-> FALSE]]
    /\ hist.via[4] = [dir |-> "write", sock |-> [id |-> 1, tls |-> TRUE]]

\* C29: a connect, send_one or one-shot send that has returned an error has
\* invoked the on_error hook, and the on_sent hook is invoked only in a call
\* whose document was accepted with a 2xx reply.
C29_HooksAtTransitions ==
    /\ (pc = "idle" /\ hist.call \in {"connect", "send_one", "send"} /\ ~result.ok) =>
          "on_error" \in fired
    /\ "on_sent" \in fired => Accepted(St)

\* C30: DATA is written only in a call in which a 2xx reply to a RCPT TO was
\* read before it.
C30_DataNeedsAcceptedRcpt ==
    \A j \in 1..Len(wire) :
        wire[j].verb = "DATA" =>
            \E i \in 1..Len(hist.replies) :
                /\ hist.replies[i].verb = "RCPT"
                /\ starts_with(hist.replies[i].text, P_2)

(***************************************************************************)
(* Properties of the queue adapter (specification Spec), continued.        *)
(***************************************************************************)
\* C31: in process_batch, a handled message whose document the server accepted
\* with a 2xx reply has one ack and no retry, whatever became of the QUIT
\* exchange and of the close of the transport after it.
C31_AcceptedIsAcked ==
    hist.call = "process_batch" =>
        \A i \in 1..Len(results) :
            results[i].accepted => queue[i] = [acks |-> 1, retries |-> 0]

====
